---- MODULE Spec2Model ----
(***************************************************************************)
(* Flight aggregation service (Chandra179/travel).                         *)
(*                                                                         *)
(*  - SearchRequest.Validate and Service.generateCacheKey as operators on  *)
(*    strings modelled as sequences of characters (SpecValidate, SpecKey); *)
(*  - FlightManager.SearchFlights, the scatter-gather over four provider   *)
(*    goroutines, a buffered channel and a WaitGroup (SpecAgg);            *)
(*  - Service.SearchFlights / FilterFlights over getOrFetchFlights, the    *)
(*    cache store with TTL and the background cache write (Spec).          *)
(***************************************************************************)
EXTENDS Integers, Sequences, FiniteSets, Bags, TLC

VARIABLES
  \* ---- pure-function harness (SpecValidate, SpecKey)
  fnReq,        \* the request handed to Validate / the first request keyed
  fnReq2,       \* the second request keyed
  fnToday,      \* time.Now().Truncate(24h) as a calendar day
  fnOut,        \* the result of the last application
  fsFlights,    \* the flight list handed to applyFilters / applySorting
  fsFilters,    \* the FilterOptions (a pointer: nil or a value)
  fsSort,       \* the SortOptions (a pointer: nil or a value)
  fsMeta,       \* the Metadata getOrFetchFlights gave with the flights
  \* ---- FlightManager.SearchFlights (SpecAgg)
  outcome,      \* what each provider's HTTP call will produce
  task,         \* position of each provider goroutine
  resultChan,   \* the buffered channel of providerResult
  chanClosed,   \* close(resultChan) has run
  wg,           \* the WaitGroup counter
  ctxExpired,   \* the context.WithTimeout deadline has fired
  lateCalls,    \* providers whose call was still running when it fired
  received,     \* providers in the order the collector received them
  allFlights,   \* collector: merged flights
  providerErrors, \* collector: per-provider failure records
  providersSucceeded,
  providersFailed,
  aggPc,        \* position of the SearchFlights caller
  aggResp,      \* the response SearchFlights returned
  \* ---- Service over the cache (Spec)
  now,          \* wall clock, in seconds
  store,        \* the cache store: key -> entry with its expiry
  calls,        \* Service calls started so far
  callers,      \* each in-flight Service call
  bgWrites,     \* background cache writes started and not yet executed
  hist          \* per caller: the I/O the call performed

fsVars  == <<fsFlights, fsFilters, fsSort, fsMeta>>
fnVars  == <<fnReq, fnReq2, fnToday, fnOut, fsVars>>
aggVars == <<outcome, task, resultChan, chanClosed, wg, ctxExpired, lateCalls,
             received, allFlights, providerErrors, providersSucceeded,
             providersFailed, aggPc, aggResp>>
svcVars == <<now, store, calls, callers, bgWrites, hist>>
vars    == <<fnVars, aggVars, svcVars>>

(***************************************************************************)
(* Strings.  A Go string is a sequence of characters; a character is a     *)
(* one-letter token, or "U+xxxx" for a non-ASCII code point.  len(s) in Go *)
(* is the number of BYTES of the UTF-8 encoding.                           *)
(***************************************************************************)
Utf8Len(c) ==
  CASE c = "U+00E9" -> 2      \* e with acute accent
    [] c = "U+65E5" -> 3      \* CJK ideograph
    [] OTHER -> 1

RECURSIVE GoLen(_)
GoLen(s) == IF s = <<>> THEN 0 ELSE Utf8Len(Head(s)) + GoLen(Tail(s))

\* unicode simple case folding, on the ASCII letters
LowerLetters == <<"a","b","c","d","e","f","g","h","i","j","k","l","m",
                  "n","o","p","q","r","s","t","u","v","w","x","y","z">>
UpperLetters == <<"A","B","C","D","E","F","G","H","I","J","K","L","M",
                  "N","O","P","Q","R","S","T","U","V","W","X","Y","Z">>
FoldChar(c) ==
  IF \E i \in 1..Len(LowerLetters) : LowerLetters[i] = c
  THEN UpperLetters[CHOOSE i \in 1..Len(LowerLetters) : LowerLetters[i] = c]
  ELSE c

EqualFold(s, t) ==
  /\ Len(s) = Len(t)
  /\ \A i \in 1..Len(s) : FoldChar(s[i]) = FoldChar(t[i])

Digits == <<"0","1","2","3","4","5","6","7","8","9">>
IsDigit(c) == \E i \in 1..10 : Digits[i] = c
DigitVal(c) == (CHOOSE i \in 1..10 : Digits[i] = c) - 1

\* fmt's %d of a small unsigned number
RECURSIVE FormatUint(_)
FormatUint(n) ==
  IF n < 10 THEN <<Digits[n + 1]>>
  ELSE FormatUint(n \div 10) \o <<Digits[(n % 10) + 1]>>

(***************************************************************************)
(* time.Parse("2006-01-02", s): four digits, '-', two digits, '-', two     *)
(* digits, nothing else; month in 1..12 and day within the month.          *)
(***************************************************************************)
IsLeap(y) == (y % 4 = 0 /\ y % 100 # 0) \/ y % 400 = 0

DaysIn(m, y) ==
  CASE m \in {4, 6, 9, 11} -> 30
    [] m = 2 -> IF IsLeap(y) THEN 29 ELSE 28
    [] OTHER -> 31

NoDate == [ok |-> FALSE, y |-> 0, m |-> 0, d |-> 0]

ParseDate(s) ==
  IF /\ Len(s) = 10
     /\ \A i \in {1, 2, 3, 4, 6, 7, 9, 10} : IsDigit(s[i])
     /\ s[5] = "-" /\ s[8] = "-"
  THEN LET y == 1000 * DigitVal(s[1]) + 100 * DigitVal(s[2])
                + 10 * DigitVal(s[3]) + DigitVal(s[4])
           m == 10 * DigitVal(s[6]) + DigitVal(s[7])
           d == 10 * DigitVal(s[9]) + DigitVal(s[10])
       IN IF m \in 1..12 /\ d >= 1 /\ d <= DaysIn(m, y)
          THEN [ok |-> TRUE, y |-> y, m |-> m, d |-> d]
          ELSE NoDate
  ELSE NoDate

\* t.Before(u) on two midnights
DateBefore(a, b) ==
  \/ a.y < b.y
  \/ a.y = b.y /\ a.m < b.m
  \/ a.y = b.y /\ a.m = b.m /\ a.d < b.d

(***************************************************************************)
(* SearchRequest.Validate: the first failing check decides the error.      *)
(***************************************************************************)
Validate(r, today) ==
  LET dep == ParseDate(r.DepartureDate)
      ret == ParseDate(r.ReturnDate)
  IN
  IF GoLen(r.Origin) # 3 THEN "ErrorCodeValidation"
  ELSE IF GoLen(r.Destination) # 3 THEN "ErrorCodeValidation"
  ELSE IF EqualFold(r.Origin, r.Destination) THEN "ErrorCodeSameOriginDestination"
  ELSE IF r.Passengers < 1 THEN "ErrorCodeInvalidPassengerCount"
  ELSE IF r.Passengers > 9 THEN "ErrorCodeInvalidPassengerCount"
  ELSE IF ~dep.ok THEN "ErrorCodeInvalidDateFormat"
  ELSE IF DateBefore(dep, today) THEN "ErrorCodeDeparturePast"
  ELSE IF r.ReturnDate # <<>> /\ ~ret.ok THEN "ErrorCodeInvalidDateFormat"
  ELSE IF r.ReturnDate # <<>> /\ DateBefore(ret, dep) THEN "ErrorCodeReturnBeforeDeparture"
  ELSE "nil"

(***************************************************************************)
(* Service.generateCacheKey: Sprintf("flight:%s:%s:%s:%d:%s", ...), then   *)
(* the first 16 bytes of its SHA-256 in hex after "flight:search:".        *)
(***************************************************************************)
Colon == <<":">>

\* the key of an earlier revision: route and date only
KeyPreimageRouteOnly(r) ==
  <<"f","l","i","g","h","t">> \o Colon \o r.Origin \o Colon \o r.Destination
    \o Colon \o r.DepartureDate

KeyPreimage(r) ==
  <<"f","l","i","g","h","t">> \o Colon \o r.Origin \o Colon \o r.Destination
    \o Colon \o r.DepartureDate \o Colon \o FormatUint(r.Passengers)
    \o Colon \o r.CabinClass

\* sha256.Sum256(...)[:16] in hex.  The digest is taken to be collision-free
\* on the inputs of the model: it is represented by the bytes it digests.
Sha256Hex16(bytes) == bytes

generateCacheKey(r) ==
  <<"f","l","i","g","h","t",":","s","e","a","r","c","h",":">>
    \o Sha256Hex16(KeyPreimage(r))

(***************************************************************************)
(* Inputs of the pure-function harness.                                    *)
(***************************************************************************)
CGK == <<"C","G","K">>
DPS == <<"D","P","S">>
SUB == <<"S","U","B">>
Economy  == <<"e","c","o","n","o","m","y">>
Business == <<"b","u","s","i","n","e","s","s">>
D1214 == <<"2","0","2","5","-","1","2","-","1","4">>
D1215 == <<"2","0","2","5","-","1","2","-","1","5">>
D1216 == <<"2","0","2","5","-","1","2","-","1","6">>

NoRequest ==
  [Origin |-> <<>>, Destination |-> <<>>, DepartureDate |-> <<>>,
   ReturnDate |-> <<>>, Passengers |-> 0, CabinClass |-> <<>>]

ValOrigins ==
  { CGK, <<"c","g","k">>, <<"C","G">>, <<"U+65E5">>, <<"U+00E9","G","K">> }
ValDestinations == { DPS, CGK, <<"D","P","S","X">> }
ValPassengers == { 0, 1, 9, 10 }
ValDepartures ==
  { D1215, D1214, <<>>,
    <<"2","0","2","5","-","0","2","-","3","0">>,     \* no such day
    <<"2","0","2","5","-","1","3","-","0","1">>,     \* no such month
    <<"1","5","-","1","2","-","2","0","2","5">> }    \* another layout
ValReturns ==
  { <<>>, D1214, D1215, D1216, <<"s","o","o","n">> }
Todays == { ParseDate(D1214), ParseDate(D1215) }

ValRequests ==
  [Origin : ValOrigins, Destination : ValDestinations,
   DepartureDate : ValDepartures, ReturnDate : ValReturns,
   Passengers : ValPassengers, CabinClass : {Economy}]

KeyRequests ==
  [Origin : { CGK, <<"C",":","K">>, CGK \o Colon \o DPS },
   Destination : { DPS, SUB, DPS \o Colon \o SUB },
   DepartureDate : { D1215, D1216 }, ReturnDate : { <<>>, D1216 },
   Passengers : { 1, 2 }, CabinClass : { Economy, Business }]

(***************************************************************************)
(* FlightManager.SearchFlights: four provider goroutines, each sending one *)
(* providerResult on a channel of capacity 4; a closer goroutine that      *)
(* closes the channel after wg.Wait(); the caller ranging over the channel.*)
(***************************************************************************)
Providers == <<"AirAsia", "Batik Air", "Garuda Indonesia", "Lion Air">>
ProviderSet == { Providers[i] : i \in 1..Len(Providers) }
ChanCap == 4
ProvidersQueried == 4

ErrorCodeTimeout == "TIMEOUT"
ErrorCodeInternalFailure == "INTERNAL_FAILURE"

\* What a provider's call and mapping can end in.
\*   ok          200 and a decodable body of well-formed records
\*   deadline    httpClient.Do fails on the client's Timeout
\*   io_timeout  httpClient.Do fails on a dial or read timeout
\*   status      a non-200 status
\*   malformed   (AirAsia) decodable body, a flight_code shorter than 2
\*   bad_tz      (Lion Air) decodable body, a timezone LoadLocation rejects
CallOutcomes(p) ==
  {"ok", "deadline", "io_timeout", "status"}
    \cup (IF p = "AirAsia" THEN {"malformed"} ELSE {})
    \cup (IF p = "Lion Air" THEN {"bad_tz"} ELSE {})

\* The error value of a failed call: whether errors.Is(err,
\* context.DeadlineExceeded) holds, and the words of err.Error().
CallError(k) ==
  CASE k = "deadline" ->
         [isDeadline |-> TRUE,
          msg |-> <<"external", "api", "call", "failed:", "context", "deadline",
                    "exceeded", "(Client.Timeout", "exceeded", "while",
                    "awaiting", "headers)">>]
    [] k = "io_timeout" ->
         [isDeadline |-> FALSE,
          msg |-> <<"external", "api", "call", "failed:", "dial", "tcp:",
                    "i/o", "timeout">>]
    [] k = "status" ->
         [isDeadline |-> FALSE,
          msg |-> <<"external", "api", "returned", "non-200", "status:", "503">>]
    [] k = "bad_tz" ->
         [isDeadline |-> FALSE,
          msg |-> <<"lionair:", "failed", "to", "apply", "departure",
                    "timezone:", "invalid", "timezone", "Mars/Phobos">>]

\* strings.Contains on the words of a message
Contains(msg, sub) ==
  \E i \in 1..(Len(msg) - Len(sub) + 1) :
    \A j \in 1..Len(sub) : msg[i + j - 1] = sub[j]

\* a categorizeError that trusts errors.Is alone
categorizeErrorIsOnly(err) ==
  IF err.isDeadline THEN ErrorCodeTimeout ELSE ErrorCodeInternalFailure

categorizeError(err) ==
  IF \/ err.isDeadline
     \/ Contains(err.msg, <<"timeout">>)
     \/ Contains(err.msg, <<"deadline", "exceeded">>)
  THEN ErrorCodeTimeout
  ELSE ErrorCodeInternalFailure

\* The normalized flights of each provider's well-formed answer.  Lion Air
\* takes a flight's Provider from the payload's carrier name, so one of its
\* flights can equal a Batik Air flight field for field.
MappedFlights(p) ==
  CASE p = "AirAsia" ->
         << [ID |-> "QZ520", Provider |-> "AirAsia"],
            [ID |-> "QZ524", Provider |-> "AirAsia"] >>
    [] p = "Batik Air" -> << [ID |-> "ID6514", Provider |-> "Batik Air"] >>
    [] p = "Garuda Indonesia" ->
         << [ID |-> "GA400", Provider |-> "Garuda Indonesia"] >>
    [] p = "Lion Air" ->
         << [ID |-> "JT740", Provider |-> "Lion Air"],
            [ID |-> "ID6514", Provider |-> "Batik Air"] >>

\* what the goroutine of provider p sends for outcome k
ProviderResult(p, k) ==
  IF k = "ok"
  THEN [provider |-> p, flights |-> MappedFlights(p), failed |-> FALSE,
        errorCode |-> ""]
  ELSE [provider |-> p, flights |-> <<>>, failed |-> TRUE,
        errorCode |-> categorizeError(CallError(k))]

\* mapAirAsiaFlights slices FlightCode[0:2] and panics on a shorter code
MapPanics(p, k) == p = "AirAsia" /\ k = "malformed"

NoResponse == [Flights |-> <<>>, Metadata |-> [none |-> TRUE], Err |-> "none"]

AggInit ==
  /\ outcome = [p \in ProviderSet |-> "pending"]
  /\ task = [p \in ProviderSet |-> "idle"]
  /\ resultChan = <<>>
  /\ chanClosed = FALSE
  /\ wg = 0
  /\ ctxExpired = FALSE
  /\ lateCalls = {}
  /\ received = <<>>
  /\ allFlights = <<>>
  /\ providerErrors = <<>>
  /\ providersSucceeded = 0
  /\ providersFailed = 0
  /\ aggPc = "idle"
  /\ aggResp = NoResponse

\* SearchFlights up to the range loop: the context, the channel, wg.Add(4)
\* and the five go statements
AggStart ==
  /\ aggPc = "idle"
  /\ aggPc' = "running"
  /\ task' = [p \in ProviderSet |-> "calling"]
  /\ wg' = 4
  /\ UNCHANGED <<outcome, resultChan, chanClosed, ctxExpired, lateCalls,
                 received, allFlights, providerErrors, providersSucceeded,
                 providersFailed, aggResp>>
  /\ UNCHANGED <<fnVars, svcVars>>

\* A provider goroutine, whole: the client's SearchFlights returns (the
\* clients build their request with http.NewRequest, so ctx plays no part),
\* the answer is mapped or the error categorized, the result is sent, and
\* the deferred wg.Done() runs.  A panic in the mapping ends the process.
ProviderTask(p) ==
  /\ aggPc = "running"
  /\ task[p] = "calling"
  /\ \E k \in CallOutcomes(p) :
       /\ outcome' = [outcome EXCEPT ![p] = k]
       /\ IF MapPanics(p, k)
          THEN /\ aggPc' = "crashed"
               /\ UNCHANGED <<task, resultChan, wg>>
          ELSE /\ Len(resultChan) < ChanCap
               /\ resultChan' = Append(resultChan, ProviderResult(p, k))
               /\ task' = [task EXCEPT ![p] = "exit"]
               /\ wg' = wg - 1
               /\ UNCHANGED aggPc
  /\ UNCHANGED <<chanClosed, ctxExpired, lateCalls, received, allFlights,
                 providerErrors, providersSucceeded, providersFailed, aggResp>>
  /\ UNCHANGED <<fnVars, svcVars>>

\* the closer goroutine: wg.Wait(); close(resultChan)
CloseChan ==
  /\ aggPc = "running"
  /\ wg = 0
  /\ ~chanClosed
  /\ chanClosed' = TRUE
  /\ UNCHANGED <<outcome, task, resultChan, wg, ctxExpired, lateCalls,
                 received, allFlights, providerErrors, providersSucceeded,
                 providersFailed, aggPc, aggResp>>
  /\ UNCHANGED <<fnVars, svcVars>>

\* a merge that drops a flight already in the list
MergeFlightsDedup(flights, result) ==
  flights \o SelectSeq(result.flights,
                       LAMBDA f : \A i \in 1..Len(flights) : flights[i] # f)

\* a merge that puts the newest result first
MergeFlightsFront(flights, result) == result.flights \o flights

\* the flights and the error list after one received result
MergeFlights(flights, result) == flights \o result.flights

\* an error list that keeps one entry per error code
MergeErrorsByCode(errs, result) ==
  IF \E i \in 1..Len(errs) : errs[i].Code = result.errorCode THEN errs
  ELSE Append(errs, [Provider |-> result.provider, Code |-> result.errorCode])

MergeErrors(errs, result) ==
  Append(errs, [Provider |-> result.provider, Code |-> result.errorCode])

\* one iteration of `for result := range resultChan`
Collect ==
  /\ aggPc = "running"
  /\ resultChan # <<>>
  /\ LET result == Head(resultChan) IN
       /\ resultChan' = Tail(resultChan)
       /\ received' = Append(received, result.provider)
       /\ IF ~result.failed
          THEN /\ allFlights' = MergeFlights(allFlights, result)
               /\ providersSucceeded' = providersSucceeded + 1
               /\ UNCHANGED <<providersFailed, providerErrors>>
          ELSE /\ providersFailed' = providersFailed + 1
               /\ providerErrors' = MergeErrors(providerErrors, result)
               /\ UNCHANGED <<allFlights, providersSucceeded>>
  /\ UNCHANGED <<outcome, task, chanClosed, wg, ctxExpired, lateCalls,
                 aggPc, aggResp>>
  /\ UNCHANGED <<fnVars, svcVars>>

\* the range loop ends on the closed, drained channel; the response is built
AggReturn ==
  /\ aggPc = "running"
  /\ resultChan = <<>>
  /\ chanClosed
  /\ aggPc' = "done"
  /\ aggResp' =
       [Flights |-> allFlights,
        Metadata |-> [TotalResults |-> Len(allFlights),
                      ProvidersQueried |-> ProvidersQueried,
                      ProvidersSucceeded |-> providersSucceeded,
                      ProvidersFailed |-> providersFailed,
                      ProviderErrors |-> providerErrors,
                      SearchTimeMs |-> 0,
                      CacheHit |-> FALSE,
                      CacheKey |-> <<>>],
        Err |-> "nil"]
  /\ UNCHANGED <<outcome, task, resultChan, chanClosed, wg, ctxExpired,
                 lateCalls, received, allFlights, providerErrors,
                 providersSucceeded, providersFailed>>
  /\ UNCHANGED <<fnVars, svcVars>>

\* the deadline of context.WithTimeout(ctx, 10*time.Second) fires
DeadlineExpire ==
  /\ aggPc = "running"
  /\ ~ctxExpired
  /\ ctxExpired' = TRUE
  /\ lateCalls' = { p \in ProviderSet : task[p] = "calling" }
  /\ UNCHANGED <<outcome, task, resultChan, chanClosed, wg, received,
                 allFlights, providerErrors, providersSucceeded,
                 providersFailed, aggPc, aggResp>>
  /\ UNCHANGED <<fnVars, svcVars>>

AggNext ==
  \/ AggStart
  \/ \E p \in ProviderSet : ProviderTask(p)
  \/ CloseChan
  \/ Collect
  \/ AggReturn
  \/ DeadlineExpire

(***************************************************************************)
(* Flights as applyFilters and applySorting see them, and FilterOptions.   *)
(* A pointer is nil or holds a value.                                      *)
(***************************************************************************)
NilPtr == [isNil |-> TRUE]
Ptr(v) == [isNil |-> FALSE, v |-> v]

Clock(h, m, sec) == [Hour |-> h, Minute |-> m, Second |-> sec]

\* a Flight: the fields the filter and the sort read or write
MkFlight(id, name, code, dep, depTs, arr, arrTs, minutes, stops, amount) ==
  [ID |-> id,
   Airline |-> [Name |-> name, Code |-> code],
   Departure |-> [Datetime |-> dep, Timestamp |-> depTs],
   Arrival |-> [Datetime |-> arr, Timestamp |-> arrTs],
   Duration |-> [TotalMinutes |-> minutes],
   Stops |-> stops,
   Price |-> [Amount |-> amount],
   BestValueScore |-> NilPtr]

FlightGA == MkFlight("GA400", <<"G","a","r","u","d","a"," ","I","n","d","o","n","e","s","i","a">>, <<"G","A">>,
                     Clock(6, 0, 0), 21600, Clock(7, 40, 0), 27600,
                     100, 0, 500000)
FlightJT == MkFlight("JT740", <<"L","i","o","n"," ","A","i","r">>, <<"J","T">>,
                     Clock(10, 0, 30), 36030, Clock(12, 30, 30), 45030,
                     150, 1, 650000)
FlightQZ == MkFlight("QZ520", <<"A","i","r","A","s","i","a">>, <<"Q","Z">>,
                     Clock(22, 15, 0), 80100, Clock(1, 35, 0), 92100,
                     200, 2, 900000)
\* a second flight with the price, duration, stops and times of GA400
FlightID == MkFlight("ID6514", <<"B","a","t","i","k"," ","A","i","r">>, <<"I","D">>,
                     Clock(6, 0, 0), 21600, Clock(7, 40, 0), 27600,
                     100, 0, 500000)
FlightPool == {FlightGA, FlightJT, FlightQZ, FlightID}

MaxFlights == 3

RECURSIVE ListsUpTo(_, _)
ListsUpTo(pool, n) ==
  IF n = 0 THEN {<<>>}
  ELSE LET shorter == ListsUpTo(pool, n - 1)
       IN shorter \cup { Append(l, f) : l \in {x \in shorter : Len(x) = n - 1},
                                        f \in pool }

FlightLists == ListsUpTo(FlightPool, MaxFlights)

T0600 == <<"0","6",":","0","0">>
T1000 == <<"1","0",":","0","0">>
T2200 == <<"2","2",":","0","0">>
T0200 == <<"0","2",":","0","0">>
T0000 == <<"0","0",":","0","0">>
T0740 == <<"0","7",":","4","0">>
T6am  == <<"6","a","m">>
T2400 == <<"2","4",":","0","0">>

PriceRanges == { NilPtr, Ptr([Low |-> 500000, High |-> 650000]),
                 Ptr([Low |-> 650001, High |-> 900000]) }
MaxStopsOptions == { NilPtr, Ptr(0), Ptr(1) }
MaxDurationOptions == { NilPtr, Ptr(150) }
DepartureTimes == { NilPtr, Ptr([From |-> T0600, To |-> T1000]),
                    Ptr([From |-> T2200, To |-> T0200]),
                    Ptr([From |-> T6am, To |-> T2400]) }
ArrivalTimes == { NilPtr, Ptr([From |-> T0000, To |-> T0740]) }
AirlineLists == { <<>>, << <<"g","a">> >>, << <<"l","i","o","n"," ","a","i","r">>, <<"Q","Z">> >> }

FilterOptionsSet ==
  [PriceRange : PriceRanges, MaxStops : MaxStopsOptions,
   DepartureTime : DepartureTimes, ArrivalTime : ArrivalTimes,
   Airlines : AirlineLists, MaxDuration : MaxDurationOptions]

(***************************************************************************)
(* time.Parse("15:04", s): an hour of one or two digits below 24, ':',     *)
(* a minute of two digits below 60, nothing else.                          *)
(***************************************************************************)
NoClock == [ok |-> FALSE, h |-> 0, m |-> 0]

ParseClock(s) ==
  IF Len(s) >= 1 /\ IsDigit(s[1])
  THEN LET two == Len(s) >= 2 /\ IsDigit(s[2])
           h == IF two THEN 10 * DigitVal(s[1]) + DigitVal(s[2])
                ELSE DigitVal(s[1])
           rest == IF two THEN SubSeq(s, 3, Len(s)) ELSE SubSeq(s, 2, Len(s))
       IN IF /\ h < 24
             /\ Len(rest) = 3
             /\ rest[1] = ":"
             /\ IsDigit(rest[2]) /\ IsDigit(rest[3])
             /\ 10 * DigitVal(rest[2]) + DigitVal(rest[3]) < 60
          THEN [ok |-> TRUE, h |-> h,
                m |-> 10 * DigitVal(rest[2]) + DigitVal(rest[3])]
          ELSE NoClock
  ELSE NoClock

\* 0 when the text does not parse
parseTimeToSeconds(timeStr) ==
  LET t == ParseClock(timeStr)
  IN IF t.ok THEN t.h * 3600 + t.m * 60 ELSE 0

\* a time of day that drops the seconds
getSecondsFromMidnightNoSeconds(dt) == dt.Hour * 3600 + dt.Minute * 60

getSecondsFromMidnight(dt) == dt.Hour * 3600 + dt.Minute * 60 + dt.Second

newFilterContext(opts) ==
  [opts |-> opts,
   depFrom |-> IF opts.DepartureTime.isNil THEN 0
               ELSE parseTimeToSeconds(opts.DepartureTime.v.From),
   depTo |-> IF opts.DepartureTime.isNil THEN 0
             ELSE parseTimeToSeconds(opts.DepartureTime.v.To),
   arrFrom |-> IF opts.ArrivalTime.isNil THEN 0
               ELSE parseTimeToSeconds(opts.ArrivalTime.v.From),
   arrTo |-> IF opts.ArrivalTime.isNil THEN 0
             ELSE parseTimeToSeconds(opts.ArrivalTime.v.To)]

\* filterContext.matches: every active filter passes
matches(fc, f) ==
  /\ fc.opts.PriceRange.isNil
     \/ ~(f.Price.Amount < fc.opts.PriceRange.v.Low
          \/ f.Price.Amount > fc.opts.PriceRange.v.High)
  /\ fc.opts.MaxStops.isNil \/ ~(f.Stops > fc.opts.MaxStops.v)
  /\ fc.opts.MaxDuration.isNil
     \/ ~(f.Duration.TotalMinutes > fc.opts.MaxDuration.v)
  /\ fc.opts.DepartureTime.isNil
     \/ LET depSec == getSecondsFromMidnight(f.Departure.Datetime)
        IN ~(depSec < fc.depFrom \/ depSec > fc.depTo)
  /\ fc.opts.ArrivalTime.isNil
     \/ LET arrSec == getSecondsFromMidnight(f.Arrival.Datetime)
        IN ~(arrSec < fc.arrFrom \/ arrSec > fc.arrTo)
  /\ ~(Len(fc.opts.Airlines) > 0)
     \/ \E i \in 1..Len(fc.opts.Airlines) :
          \/ EqualFold(f.Airline.Code, fc.opts.Airlines[i])
          \/ EqualFold(f.Airline.Name, fc.opts.Airlines[i])

\* the filtered list, in the order of the input
RECURSIVE Filtered(_, _)
Filtered(flights, fc) ==
  IF flights = <<>> THEN <<>>
  ELSE IF matches(fc, Head(flights))
       THEN <<Head(flights)>> \o Filtered(Tail(flights), fc)
       ELSE Filtered(Tail(flights), fc)

\* a filter that loses the first flight it keeps
applyFiltersDropFirst(flights, opts) ==
  LET kept == Filtered(flights, newFilterContext(opts))
  IN IF kept = <<>> THEN kept ELSE Tail(kept)

applyFilters(flights, opts) == Filtered(flights, newFilterContext(opts))

(***************************************************************************)
(* float64 values of the best-value score, as exact fractions in lowest    *)
(* terms (the rounding of float64 arithmetic is not represented).          *)
(***************************************************************************)
RECURSIVE GCD(_, _)
GCD(a, b) == IF b = 0 THEN a ELSE GCD(b, a % b)

Frac(n, d) == LET g == GCD(n, d) IN [num |-> n \div g, den |-> d \div g]
FracZero == [num |-> 0, den |-> 1]
FracOne == [num |-> 1, den |-> 1]
FracAdd(a, b) == Frac(a.num * b.den + b.num * a.den, a.den * b.den)
FracSub(a, b) == Frac(a.num * b.den - b.num * a.den, a.den * b.den)
FracMul(a, b) == Frac(a.num * b.num, a.den * b.den)
FracLess(a, b) == a.num * b.den < b.num * a.den

priceWeight == Frac(45, 100)
durationWeight == Frac(35, 100)
stopsWeight == Frac(20, 100)

\* a normalization that gives 0 when all values are equal
normalizeZero(val, min, max) ==
  IF max > min THEN FracSub(FracOne, Frac(val - min, max - min)) ELSE FracZero

\* normalize(val, min, max)
normalize(val, min, max) ==
  IF max > min THEN FracSub(FracOne, Frac(val - min, max - min)) ELSE FracOne

\* the scan for the least and the greatest value over a non-empty list
ScanMin(vals) == CHOOSE m \in vals : \A v \in vals : m <= v
ScanMax(vals) == CHOOSE m \in vals : \A v \in vals : m >= v

\* calculateBestValueScores: the flights with their scores attached
calculateBestValueScores(flights) ==
  IF flights = <<>> THEN flights
  ELSE
  LET idx == 1..Len(flights)
      minPrice == ScanMin({flights[i].Price.Amount : i \in idx})
      maxPrice == ScanMax({flights[i].Price.Amount : i \in idx})
      minDuration == ScanMin({flights[i].Duration.TotalMinutes : i \in idx})
      maxDuration == ScanMax({flights[i].Duration.TotalMinutes : i \in idx})
      minStops == ScanMin({flights[i].Stops : i \in idx})
      maxStops == ScanMax({flights[i].Stops : i \in idx})
  IN [i \in idx |->
        LET normPrice == normalize(flights[i].Price.Amount, minPrice, maxPrice)
            normDuration == normalize(flights[i].Duration.TotalMinutes,
                                      minDuration, maxDuration)
            normStops == normalize(flights[i].Stops, minStops, maxStops)
            score == FracAdd(FracAdd(FracMul(priceWeight, normPrice),
                                     FracMul(durationWeight, normDuration)),
                             FracMul(stopsWeight, normStops))
        IN [flights[i] EXCEPT !.BestValueScore = Ptr(score)]]

\* the score the comparison of sortByBestValue reads: 0.0 for nil
ScoreOf(f) == IF f.BestValueScore.isNil THEN FracZero ELSE f.BestValueScore.v

\* the less functions of sortByPrice, sortByDuration, sortByDepartureTime,
\* sortByArrivalTime and sortByBestValue
Less(by, order, a, b) ==
  CASE by = "price" ->
         IF order = "desc" THEN a.Price.Amount > b.Price.Amount
         ELSE a.Price.Amount < b.Price.Amount
    [] by = "duration" ->
         IF order = "desc"
         THEN a.Duration.TotalMinutes > b.Duration.TotalMinutes
         ELSE a.Duration.TotalMinutes < b.Duration.TotalMinutes
    [] by = "departure_time" ->
         IF order = "desc" THEN a.Departure.Timestamp > b.Departure.Timestamp
         ELSE a.Departure.Timestamp < b.Departure.Timestamp
    [] by = "arrival_time" ->
         IF order = "desc" THEN a.Arrival.Timestamp > b.Arrival.Timestamp
         ELSE a.Arrival.Timestamp < b.Arrival.Timestamp
    [] by = "best_value" ->
         IF order = "desc" THEN FracLess(ScoreOf(b), ScoreOf(a))
         ELSE FracLess(ScoreOf(a), ScoreOf(b))

\* x put into a sorted list before the first element it is less than
RECURSIVE InsertStable(_, _, _, _)
InsertStable(x, sorted, by, order) ==
  IF sorted = <<>> THEN <<x>>
  ELSE LET last == sorted[Len(sorted)]
       IN IF Less(by, order, x, last)
          THEN Append(InsertStable(x, SubSeq(sorted, 1, Len(sorted) - 1),
                                   by, order), last)
          ELSE Append(sorted, x)

\* a sort that puts an element before the elements it ties with
RECURSIVE InsertBeforeTies(_, _, _, _)
InsertBeforeTies(x, sorted, by, order) ==
  IF sorted = <<>> THEN <<x>>
  ELSE LET last == sorted[Len(sorted)]
       IN IF ~Less(by, order, last, x)
          THEN Append(InsertBeforeTies(x, SubSeq(sorted, 1, Len(sorted) - 1),
                                       by, order), last)
          ELSE Append(sorted, x)

RECURSIVE SliceUnstable(_, _, _)
SliceUnstable(flights, by, order) ==
  IF flights = <<>> THEN <<>>
  ELSE InsertBeforeTies(flights[Len(flights)],
                        SliceUnstable(SubSeq(flights, 1, Len(flights) - 1),
                                      by, order),
                        by, order)

\* sort.SliceStable(flights, less)
RECURSIVE SliceStable(_, _, _)
SliceStable(flights, by, order) ==
  IF flights = <<>> THEN <<>>
  ELSE InsertStable(flights[Len(flights)],
                    SliceStable(SubSeq(flights, 1, Len(flights) - 1),
                                by, order),
                    by, order)

sortByBestValue(flights, order) ==
  IF Len(flights) <= 1 THEN flights
  ELSE SliceStable(calculateBestValueScores(flights), "best_value", order)

SortKeys == {"price", "duration", "departure_time", "arrival_time", "best_value"}

\* the switch of applySorting on the copy
SortCopy(sorted, sortOpt) ==
  IF sortOpt.By = "best_value" THEN sortByBestValue(sorted, sortOpt.Order)
  ELSE IF sortOpt.By \in SortKeys
       THEN SliceStable(sorted, sortOpt.By, sortOpt.Order)
       ELSE sorted

\* a sort that works on the caller's slice
applySortingInPlace(flights, sortOpt) ==
  [call |-> "applySorting",
   ret |-> SortCopy(flights, sortOpt),
   arg |-> SortCopy(flights, sortOpt)]

\* applySorting: ret is the slice returned, arg the caller's slice after the
\* call (the sort works on a copy made with make and copy)
applySorting(flights, sortOpt) ==
  [call |-> "applySorting",
   ret |-> IF Len(flights) <= 1 THEN flights ELSE SortCopy(flights, sortOpt),
   arg |-> flights]

\* flights that tie with JT740 on price and with GA400 on the rest
FlightJT2 == MkFlight("JT742", <<"L","i","o","n"," ","A","i","r">>, <<"J","T">>,
                      Clock(6, 0, 0), 21600, Clock(7, 40, 0), 27600,
                      100, 0, 650000)
SortPool == FlightPool \cup {FlightJT2}
SortLists == ListsUpTo(SortPool, MaxFlights)
SortOptionsSet ==
  [By : SortKeys \cup {"rating"}, Order : {"asc", "desc", ""}]

(***************************************************************************)
(* The cache store (pkg/cache, Redis): Set with a TTL, Get, Del.  An entry *)
(* written at time t with TTL d is gone from t+d on.  A stored value is a  *)
(* string: the JSON text of a response, or what another writer left there. *)
(***************************************************************************)
MaxTime == 2
MaxCalls == 2
TtlSeconds == 1

Callers == {"c1", "c2"}

NoValue == [kind |-> "none"]
NoEntry == [present |-> FALSE, val |-> NoValue, at |-> 0, exp |-> 0]

\* a Set whose entry outlives its TTL
CacheSetLate(st, key, value, ttl, t) ==
  [st EXCEPT ![key] = [present |-> TRUE, val |-> value, at |-> t,
                       exp |-> t + ttl + 1]]

\* a Set that appends the flights of the value to those of a value already
\* there
CacheSetMerge(st, key, value, ttl, t) ==
  [st EXCEPT ![key] =
     [present |-> TRUE,
      val |-> IF st[key].present /\ st[key].val.kind = "json"
              THEN [value EXCEPT !.flights = st[key].val.flights \o @]
              ELSE value,
      at |-> t, exp |-> t + ttl]]

\* redisCache.Set(ctx, key, value, ttl) at time t
CacheSet(st, key, value, ttl, t) ==
  [st EXCEPT ![key] = [present |-> TRUE, val |-> value, at |-> t, exp |-> t + ttl]]

\* a Del that empties the store
CacheDelAll(st, key) == [k \in DOMAIN st |-> NoEntry]

\* redisCache.Del(ctx, key)
CacheDel(st, key) == [st EXCEPT ![key] = NoEntry]

\* the store at time t: the entries whose TTL has run out are gone
Expire(st, t) ==
  [k \in DOMAIN st |->
     IF st[k].present /\ st[k].exp <= t
     THEN [st[k] EXCEPT !.present = FALSE, !.val = NoValue]
     ELSE st[k]]

\* a Get that never finds the key
CacheGetNil(st, key, t) == [err |-> "redis: nil", val |-> NoValue]

\* redisCache.Get(ctx, key) at time t: the value, or redis.Nil
CacheGet(st, key, t) ==
  IF Expire(st, t)[key].present
  THEN [err |-> "nil", val |-> st[key].val]
  ELSE [err |-> "redis: nil", val |-> NoValue]

(***************************************************************************)
(* encoding/json on FlightSearchResponse: the struct tags of Metadata omit *)
(* provider_errors, search_time_ms and cache_key when empty.               *)
(***************************************************************************)
OmitEmpty(v, zero) == [set |-> v # zero, v |-> v]
Restore(field, zero) == IF field.set THEN field.v ELSE zero

ZeroMetadata ==
  [TotalResults |-> 0, ProvidersQueried |-> 0, ProvidersSucceeded |-> 0,
   ProvidersFailed |-> 0, ProviderErrors |-> <<>>, SearchTimeMs |-> 0,
   CacheHit |-> FALSE, CacheKey |-> <<>>]

Marshal(resp) ==
  [kind |-> "json",
   metadata |->
     [total_results |-> resp.Metadata.TotalResults,
      providers_queried |-> resp.Metadata.ProvidersQueried,
      providers_succeeded |-> resp.Metadata.ProvidersSucceeded,
      providers_failed |-> resp.Metadata.ProvidersFailed,
      provider_errors |-> OmitEmpty(resp.Metadata.ProviderErrors, <<>>),
      search_time_ms |-> OmitEmpty(resp.Metadata.SearchTimeMs, 0),
      cache_hit |-> resp.Metadata.CacheHit,
      cache_key |-> OmitEmpty(resp.Metadata.CacheKey, <<>>)],
   flights |-> resp.Flights]

\* json.Unmarshal: an error on text that is no JSON object
Unmarshal(text) ==
  IF text.kind = "json"
  THEN [err |-> "nil",
        Flights |-> text.flights,
        Metadata |->
          [TotalResults |-> text.metadata.total_results,
           ProvidersQueried |-> text.metadata.providers_queried,
           ProvidersSucceeded |-> text.metadata.providers_succeeded,
           ProvidersFailed |-> text.metadata.providers_failed,
           ProviderErrors |-> Restore(text.metadata.provider_errors, <<>>),
           SearchTimeMs |-> Restore(text.metadata.search_time_ms, 0),
           CacheHit |-> text.metadata.cache_hit,
           CacheKey |-> Restore(text.metadata.cache_key, <<>>)]]
  ELSE [err |-> "invalid character", Flights |-> <<>>, Metadata |-> ZeroMetadata]

(***************************************************************************)
(* What Service.flightClient.SearchFlights can return: a response of the   *)
(* FlightManager, an error, or neither.                                    *)
(***************************************************************************)
RECURSIVE ConcatFlights(_)
ConcatFlights(order) ==
  IF order = <<>> THEN <<>>
  ELSE MappedFlights(Head(order)) \o ConcatFlights(Tail(order))

AggResponse(flights, succeeded, failed, errs) ==
  [Flights |-> flights,
   Metadata |-> [TotalResults |-> Len(flights),
                 ProvidersQueried |-> ProvidersQueried,
                 ProvidersSucceeded |-> succeeded,
                 ProvidersFailed |-> failed,
                 ProviderErrors |-> errs,
                 SearchTimeMs |-> 0,
                 CacheHit |-> FALSE,
                 CacheKey |-> <<>>],
   Err |-> "nil"]

FetchOutcomes ==
  { [isNil |-> FALSE, err |-> "nil",
     resp |-> AggResponse(ConcatFlights(Providers), 4, 0, <<>>)],
    [isNil |-> FALSE, err |-> "nil",
     resp |-> AggResponse(ConcatFlights(<<"Garuda Indonesia", "AirAsia">>), 2, 2,
                          << [Provider |-> "Lion Air", Code |-> ErrorCodeTimeout],
                             [Provider |-> "Batik Air",
                              Code |-> ErrorCodeInternalFailure] >>)],
    [isNil |-> TRUE, err |-> "fetch failed", resp |-> NoResponse],
    [isNil |-> TRUE, err |-> "nil", resp |-> NoResponse] }

(***************************************************************************)
(* Service.SearchFlights and Service.FilterFlights over getOrFetchFlights. *)
(***************************************************************************)
SvcToday == ParseDate(D1214)

ReqA  == [Origin |-> CGK, Destination |-> DPS, DepartureDate |-> D1215,
          ReturnDate |-> <<>>, Passengers |-> 1, CabinClass |-> Economy]
ReqB  == [ReqA EXCEPT !.Destination = SUB]
ReqBad == [ReqA EXCEPT !.Destination = <<"c","g","k">>]
SvcRequests == { ReqA, ReqB, ReqBad }
Ops == {"search", "filter"}

Keys == { generateCacheKey(r) : r \in SvcRequests }

\* an error value: the cause, and the prefix fmt.Errorf("...: %w") puts on it
NoError == [prefix |-> "", cause |-> "nil"]
NoReturn == [isNil |-> TRUE, Flights |-> <<>>, Metadata |-> ZeroMetadata,
             Err |-> [prefix |-> "", cause |-> "pending"]]
\* the context of a request: whether it has been cancelled, and when
LiveCtx == [done |-> FALSE, at |-> 0]
IdleCaller ==
  [pc |-> "idle", op |-> "none", req |-> NoRequest, key |-> <<>>,
   filters |-> NilPtr, sort |-> NilPtr, ctx |-> LiveCtx, ret |-> NoReturn]
\* what a call has done so far: its cache Gets, its calls of the flight
\* client, the cache writes it has started, what its Get gave ("err": the
\* store did not answer, "corrupt": the value was empty or did not
\* unmarshal, "expired": the entry's TTL had run out) and what the flight
\* client gave; for an InvalidateCache, whether the Del found an entry
\* ("deleted") or none ("absent")
NoHist == [gets |-> 0, fetches |-> 0, sets |-> 0, got |-> "none",
           fetched |-> "none"]

SvcIdle ==
  /\ now = 0
  /\ store = [k \in Keys |-> NoEntry]
  /\ calls = 0
  /\ callers = [c \in Callers |-> IdleCaller]
  /\ bgWrites = EmptyBag
  /\ hist = [c \in Callers |-> NoHist]

\* a FilterFlights that passes the count of the underlying result on
FilterFlightsCountBefore(flights, metadata, filters, sortOpt, elapsedMs) ==
  LET filtered == IF filters.isNil THEN flights
                  ELSE applyFilters(flights, filters.v)
      sorted == IF sortOpt.isNil THEN filtered
                ELSE applySorting(filtered, sortOpt.v).ret
  IN [isNil |-> FALSE, Flights |-> sorted,
      Metadata |-> [metadata EXCEPT !.SearchTimeMs = elapsedMs],
      Err |-> NoError]

\* a FilterFlights that sorts the list before it filters it
FilterFlightsSortFirst(flights, metadata, filters, sortOpt, elapsedMs) ==
  LET sorted == IF sortOpt.isNil THEN flights
                ELSE applySorting(flights, sortOpt.v).ret
      filtered == IF filters.isNil THEN sorted
                  ELSE applyFilters(sorted, filters.v)
  IN [isNil |-> FALSE, Flights |-> filtered,
      Metadata |-> [metadata EXCEPT !.TotalResults = Len(filtered),
                                    !.SearchTimeMs = elapsedMs],
      Err |-> NoError]

FilterFlights(flights, metadata, filters, sortOpt, elapsedMs) ==
  LET filtered == IF filters.isNil THEN flights
                  ELSE applyFilters(flights, filters.v)
      sorted == IF sortOpt.isNil THEN filtered
                ELSE applySorting(filtered, sortOpt.v).ret
  IN [isNil |-> FALSE, Flights |-> sorted,
      Metadata |-> [metadata EXCEPT !.TotalResults = Len(sorted),
                                    !.SearchTimeMs = elapsedMs],
      Err |-> NoError]

\* what the handler returns once getOrFetchFlights has given flights and
\* metadata: FilterFlights filters, sorts, recounts TotalResults and stamps
\* the elapsed time, SearchFlights passes both on
HandlerReturn(op, flights, metadata, filters, sortOpt, elapsedMs) ==
  IF op = "filter"
  THEN FilterFlights(flights, metadata, filters, sortOpt, elapsedMs)
  ELSE [isNil |-> FALSE, Flights |-> flights, Metadata |-> metadata,
        Err |-> NoError]

\* the backing array of the fetched response's Flights once the handler has
\* finished: applyFilters builds a new slice, applySorting is handed the
\* fetched slice itself when there are no Filters
SharedAfterHandler(op, flights, filters, sortOpt) ==
  IF op = "filter" /\ filters.isNil /\ ~sortOpt.isNil
  THEN applySorting(flights, sortOpt.v).arg
  ELSE flights

\* a handler that returns an empty response in place of the error
HandlerErrorSwallowed(prefix, err) ==
  [isNil |-> FALSE, Flights |-> <<>>, Metadata |-> ZeroMetadata, Err |-> NoError]

\* the handler's return of (nil, err)
HandlerError(prefix, err) ==
  [isNil |-> TRUE, Flights |-> <<>>, Metadata |-> ZeroMetadata,
   Err |-> [prefix |-> prefix, cause |-> err]]

\* time.Since(startTime).Milliseconds()
ElapsedMs == {12}

\* a lookup that takes whatever the Get gave for a response
LookupAnyValue(got) ==
  [hit |-> got.err = "nil", resp |-> Unmarshal(got.val)]

\* getOrFetchFlights, the cache lookup: the cached response, if the Get
\* gave a non-empty value that unmarshals
Lookup(got) ==
  LET dec == Unmarshal(got.val)
  IN [hit |-> got.err = "nil" /\ got.val.kind # "empty" /\ dec.err = "nil",
      resp |-> dec]

\* the metadata of a response served from the cache
StampHitKeyOnly(md, key) == [md EXCEPT !.CacheKey = key]
StampHit(md, key) == [md EXCEPT !.CacheHit = TRUE, !.CacheKey = key]

\* the lookups a call makes: with the Get ahead of Validate
LookupsOfAlways(validateErr) == 1

\* the lookups a call makes: none when Validate has refused the request
LookupsOf(validateErr) == IF validateErr = "nil" THEN 1 ELSE 0

\* SearchFlights / FilterFlights up to the cache lookup of getOrFetchFlights:
\* Validate and on an error the return of it, else the Get and on a hit the
\* return of the cached response, filtered and sorted as the request asks
SvcCallWith(c, op, r, filters, sortOpt) ==
  /\ callers[c].pc = "idle"
  /\ calls < MaxCalls
  /\ calls' = calls + 1
  /\ \E io \in {"ok", "down"}, ms \in ElapsedMs :
       LET verr == Validate(r, SvcToday)
           key == generateCacheKey(r)
           got == IF io = "ok" THEN CacheGet(store, key, now)
                  ELSE [err |-> "connection refused", val |-> NoValue]
           look == Lookup(got)
       IN
       IF LookupsOf(verr) = 0
       THEN /\ callers' = [callers EXCEPT ![c] =
                 [pc |-> "done", op |-> op, req |-> r, key |-> <<>>,
                  filters |-> filters, sort |-> sortOpt, ctx |-> LiveCtx,
                  ret |-> HandlerError("validation error", verr)]]
            /\ hist' = [hist EXCEPT ![c] = NoHist]
       ELSE /\ hist' = [hist EXCEPT ![c] =
                 [gets |-> LookupsOf(verr), fetches |-> 0, sets |-> 0,
                  got |-> IF io = "down" THEN "err"
                          ELSE IF look.hit THEN "hit"
                          ELSE IF got.err = "nil" THEN "corrupt"
                          ELSE IF store[key].exp > 0 THEN "expired"
                          ELSE "absent",
                  fetched |-> "none"]]
            /\ callers' = [callers EXCEPT ![c] =
                 [pc |-> IF look.hit THEN "done" ELSE "fetch",
                  op |-> op, req |-> r, key |-> key,
                  filters |-> filters, sort |-> sortOpt, ctx |-> LiveCtx,
                  ret |-> IF look.hit
                          THEN HandlerReturn(op, look.resp.Flights,
                                 StampHit(look.resp.Metadata, key),
                                 filters, sortOpt, ms)
                          ELSE NoReturn]]
  /\ UNCHANGED <<now, store, bgWrites>>
  /\ UNCHANGED <<fnVars, aggVars>>

\* a SearchFlights call, or a FilterFlights call without Filters and Sort
SvcCall(c, op, r) == SvcCallWith(c, op, r, NilPtr, NilPtr)

\* the response getOrFetchFlights stamps after a fetch
Stamp(resp, key) ==
  [resp EXCEPT !.Metadata.CacheHit = FALSE, !.Metadata.CacheKey = key]

\* a context: that of caller c's request (named by c), or one that is never
\* cancelled
BackgroundCtx == "background"
CtxDone(ctx) == ctx # BackgroundCtx /\ callers[ctx].ctx.done

\* a derived context that is cancelled with its parent
WithoutCancelKeepsParent(ctx) == ctx

\* context.WithoutCancel(ctx): never cancelled
WithoutCancel(ctx) == BackgroundCtx

\* a background write: the goroutine of cacheFlightResponse with its
\* arguments, the response marshalled
CacheWrite(ctx, key, resp) == [ctx |-> ctx, key |-> key, val |-> Marshal(resp)]

\* the background writes after cacheFlightResponse(bgCtx, key, resp)
StartCacheWriteTwice(writes, ctx, key, resp) ==
  writes (+) SetToBag({CacheWrite(ctx, key, resp)})
         (+) SetToBag({CacheWrite(ctx, key, resp)})

StartCacheWrite(writes, ctx, key, resp) ==
  writes (+) SetToBag({CacheWrite(ctx, key, resp)})

\* getOrFetchFlights, the fallback: the synchronous call of the flight
\* client, the stamping, the go statement of the cache write, the return,
\* and the rest of the handler.  The goroutine marshals the response it was
\* handed while the handler goes on with the response's Flights: it sees
\* their backing array as fetched, or as the handler leaves it.
FetchStepOf(c, outcomes) ==
  /\ callers[c].pc = "fetch"
  /\ \E out \in outcomes, ms \in ElapsedMs :
       LET key == callers[c].key
           resp == Stamp(out.resp, key)
           op == callers[c].op
           filters == callers[c].filters
           sortOpt == callers[c].sort
       IN
       /\ hist' = [hist EXCEPT ![c].fetches = @ + 1,
                               ![c].sets = IF out.isNil \/ out.err # "nil"
                                           THEN @ ELSE @ + 1,
                               ![c].fetched = IF out.err # "nil" THEN "error"
                                              ELSE IF out.isNil THEN "nil"
                                              ELSE "response"]
       /\ IF out.isNil \/ out.err # "nil"
          THEN /\ callers' = [callers EXCEPT
                    ![c].pc = "done",
                    ![c].ret = IF out.err # "nil" THEN HandlerError("", out.err)
                               ELSE HandlerReturn(op, <<>>, ZeroMetadata,
                                                  filters, sortOpt, ms)]
               /\ UNCHANGED bgWrites
          ELSE /\ callers' = [callers EXCEPT
                    ![c].pc = "done",
                    ![c].ret = HandlerReturn(op, resp.Flights, resp.Metadata,
                                             filters, sortOpt, ms)]
               /\ \E seen \in { resp.Flights,
                                 SharedAfterHandler(op, resp.Flights, filters,
                                                    sortOpt) } :
                    bgWrites' = StartCacheWrite(bgWrites, WithoutCancel(c), key,
                                                [resp EXCEPT !.Flights = seen])
  /\ UNCHANGED <<now, store, calls>>
  /\ UNCHANGED <<fnVars, aggVars>>

FetchStep(c) == FetchStepOf(c, FetchOutcomes)

\* the caller has its answer; the goroutine that served it ends
SvcReturn(c) ==
  /\ callers[c].pc = "done"
  /\ callers' = [callers EXCEPT ![c] = IdleCaller]
  /\ hist' = [hist EXCEPT ![c] = NoHist]
  /\ UNCHANGED <<now, store, calls, bgWrites>>
  /\ UNCHANGED <<fnVars, aggVars>>

\* the goroutine of cacheFlightResponse: s.cache.Set with the answer io of
\* the store; a Set under a cancelled context fails; an error is logged
CacheSetCall(key, io) ==
  /\ \E w \in BagToSet(bgWrites) :
       /\ w.key = key
       /\ bgWrites' = bgWrites (-) SetToBag({w})
       /\ store' = IF io = "ok" /\ ~CtxDone(w.ctx)
                   THEN CacheSet(store, w.key, w.val, TtlSeconds, now)
                   ELSE store
  /\ UNCHANGED <<now, calls, callers, hist>>
  /\ UNCHANGED <<fnVars, aggVars>>

BgCacheSet(key) == \E io \in {"ok", "down"} : CacheSetCall(key, io)

\* a second passes
Tick ==
  /\ now < MaxTime
  /\ now' = now + 1
  /\ store' = Expire(store, now')
  /\ UNCHANGED <<calls, callers, bgWrites, hist>>
  /\ UNCHANGED <<fnVars, aggVars>>

SvcNext ==
  \/ \E c \in Callers, op \in Ops, r \in SvcRequests : SvcCall(c, op, r)
  \/ \E c \in Callers : FetchStep(c)
  \/ \E c \in Callers : SvcReturn(c)
  \/ \E key \in Keys : BgCacheSet(key)
  \/ Tick

(***************************************************************************)
(* The Service over a store that another writer has left a value in: text  *)
(* that is no JSON, or the empty string, under the key of ReqA.            *)
(***************************************************************************)
SoftCallers == {"c1"}
ForeignValues == { [kind |-> "text"], [kind |-> "empty"] }

SoftStores ==
  { [k \in Keys |-> NoEntry] } \cup
  { CacheSet([k \in Keys |-> NoEntry], generateCacheKey(ReqA), v, TtlSeconds, 0) :
      v \in ForeignValues }

SoftIdle ==
  /\ now = 0
  /\ store \in SoftStores
  /\ calls = 0
  /\ callers = [c \in Callers |-> IdleCaller]
  /\ bgWrites = EmptyBag
  /\ hist = [c \in Callers |-> NoHist]

SoftNext ==
  \/ \E c \in SoftCallers, op \in Ops, r \in SvcRequests : SvcCall(c, op, r)
  \/ \E c \in SoftCallers : FetchStep(c)
  \/ \E c \in SoftCallers : SvcReturn(c)
  \/ \E key \in Keys : BgCacheSet(key)
  \/ Tick

(***************************************************************************)
(* The pure-function harness: Validate and generateCacheKey applied to     *)
(* inputs drawn in the initial state.                                      *)
(***************************************************************************)
NoFilterOptions ==
  [PriceRange |-> NilPtr, MaxStops |-> NilPtr, DepartureTime |-> NilPtr,
   ArrivalTime |-> NilPtr, Airlines |-> <<>>, MaxDuration |-> NilPtr]

FsIdle ==
  /\ fsFlights = <<>>
  /\ fsFilters = NilPtr
  /\ fsSort = NilPtr
  /\ fsMeta = ZeroMetadata

FnIdle ==
  /\ fnReq = NoRequest
  /\ fnReq2 = NoRequest
  /\ fnToday = ParseDate(D1214)
  /\ fnOut = <<>>
  /\ FsIdle

ApplyValidate ==
  /\ fnOut = <<>>
  /\ fnOut' = <<Validate(fnReq, fnToday)>>
  /\ UNCHANGED <<fnReq, fnReq2, fnToday, fsVars, aggVars, svcVars>>

ApplyKey ==
  /\ fnOut = <<>>
  /\ fnOut' = <<generateCacheKey(fnReq), generateCacheKey(fnReq2)>>
  /\ UNCHANGED <<fnReq, fnReq2, fnToday, fsVars, aggVars, svcVars>>

InitValidate ==
  /\ fnReq \in ValRequests
  /\ fnReq2 = NoRequest
  /\ fnToday \in Todays
  /\ fnOut = <<>>
  /\ FsIdle
  /\ AggInit
  /\ SvcIdle

InitKey ==
  /\ fnReq \in KeyRequests
  /\ fnReq2 \in KeyRequests
  /\ fnToday = ParseDate(D1214)
  /\ fnOut = <<>>
  /\ FsIdle
  /\ AggInit
  /\ SvcIdle

InitAgg == FnIdle /\ AggInit /\ SvcIdle

SpecValidate == InitValidate /\ [][ApplyValidate]_vars
SpecKey == InitKey /\ [][ApplyKey]_vars
SpecAgg == InitAgg /\ [][AggNext]_vars

Init == FnIdle /\ AggInit /\ SvcIdle
Spec == Init /\ [][SvcNext]_vars

\* applyFilters on a list, and on its own result
ApplyFilters ==
  /\ fnOut = <<>>
  /\ fnOut' = << applyFilters(fsFlights, fsFilters.v),
                 applyFilters(applyFilters(fsFlights, fsFilters.v), fsFilters.v) >>
  /\ UNCHANGED <<fnReq, fnReq2, fnToday, fsVars, aggVars, svcVars>>

InitFilter ==
  /\ fnReq = NoRequest
  /\ fnReq2 = NoRequest
  /\ fnToday = ParseDate(D1214)
  /\ fnOut = <<>>
  /\ fsFlights \in FlightLists
  /\ fsFilters \in { Ptr(o) : o \in FilterOptionsSet }
  /\ fsSort = NilPtr
  /\ fsMeta = ZeroMetadata
  /\ AggInit
  /\ SvcIdle

SpecFilter == InitFilter /\ [][ApplyFilters]_vars

\* applySorting on a list
ApplySorting ==
  /\ fnOut = <<>>
  /\ fnOut' = << applySorting(fsFlights, fsSort.v) >>
  /\ UNCHANGED <<fnReq, fnReq2, fnToday, fsVars, aggVars, svcVars>>

\* calculateBestValueScores on a list
ApplyScores ==
  /\ fnOut = <<>>
  /\ fnOut' = << [call |-> "calculateBestValueScores",
                  ret |-> calculateBestValueScores(fsFlights),
                  arg |-> fsFlights] >>
  /\ UNCHANGED <<fnReq, fnReq2, fnToday, fsVars, aggVars, svcVars>>

InitSort ==
  /\ fnReq = NoRequest
  /\ fnReq2 = NoRequest
  /\ fnToday = ParseDate(D1214)
  /\ fnOut = <<>>
  /\ fsFlights \in SortLists
  /\ fsFilters = NilPtr
  /\ fsSort \in { Ptr(o) : o \in SortOptionsSet }
  /\ fsMeta = ZeroMetadata
  /\ AggInit
  /\ SvcIdle

SpecSort == InitSort /\ [][ApplySorting \/ ApplyScores]_vars

InitSoft == FnIdle /\ AggInit /\ SoftIdle
SpecSoft == InitSoft /\ [][SoftNext]_vars

(***************************************************************************)
(* The Service with InvalidateCache, over a store that earlier searches    *)
(* for ReqA, or for ReqA and ReqB, have filled.                            *)
(***************************************************************************)
\* InvalidateCache(ctx, req): the key of req, logged, and the Del
InvalidateCache(c, r) ==
  /\ callers[c].pc = "idle"
  /\ calls < MaxCalls
  /\ calls' = calls + 1
  /\ \E io \in {"ok", "down"} :
       LET key == generateCacheKey(r) IN
       /\ store' = IF io = "ok" THEN CacheDel(store, key) ELSE store
       /\ callers' = [callers EXCEPT ![c] =
            [pc |-> "done", op |-> "invalidate", req |-> r, key |-> key,
             filters |-> NilPtr, sort |-> NilPtr, ctx |-> LiveCtx,
             ret |-> [isNil |-> TRUE, Flights |-> <<>>,
                      Metadata |-> ZeroMetadata,
                      Err |-> IF io = "ok" THEN NoError
                              ELSE [prefix |-> "",
                                    cause |-> "connection refused"]]]]
       /\ hist' = [hist EXCEPT ![c] =
            [NoHist EXCEPT !.got = IF io = "down" THEN "err"
                                   ELSE IF store[key].present THEN "deleted"
                                   ELSE "absent"]]
  /\ UNCHANGED <<now, bgWrites>>
  /\ UNCHANGED <<fnVars, aggVars>>

\* the entry a search for r leaves in the cache
CachedSearch(r) ==
  LET out == CHOOSE o \in FetchOutcomes :
               ~o.isNil /\ o.err = "nil" /\ o.resp.Metadata.ProvidersFailed = 0
  IN Marshal(Stamp(out.resp, generateCacheKey(r)))

InvalidateStores ==
  LET empty == [k \in Keys |-> NoEntry]
      withA == CacheSet(empty, generateCacheKey(ReqA), CachedSearch(ReqA),
                        TtlSeconds, 0)
      withAB == CacheSet(withA, generateCacheKey(ReqB), CachedSearch(ReqB),
                         TtlSeconds, 0)
  IN {empty, withA, withAB}

InvalidateIdle ==
  /\ now = 0
  /\ store \in InvalidateStores
  /\ calls = 0
  /\ callers = [c \in Callers |-> IdleCaller]
  /\ bgWrites = EmptyBag
  /\ hist = [c \in Callers |-> NoHist]

InvalidateNext ==
  \/ \E c \in SoftCallers, op \in Ops, r \in SvcRequests : SvcCall(c, op, r)
  \/ \E c \in SoftCallers, r \in SvcRequests : InvalidateCache(c, r)
  \/ \E c \in SoftCallers : FetchStep(c)
  \/ \E c \in SoftCallers : SvcReturn(c)
  \/ \E key \in Keys : BgCacheSet(key)
  \/ Tick

InitInvalidate == FnIdle /\ AggInit /\ InvalidateIdle
SpecInvalidate == InitInvalidate /\ [][InvalidateNext]_vars

(***************************************************************************)
(* The Service with FilterFlights requests that carry Filters and Sort,    *)
(* over a flight client that returns flights the filters can read.         *)
(***************************************************************************)
PersistLists == { <<FlightQZ, FlightGA, FlightJT>>, <<FlightJT, FlightGA>> }

PersistOutcomes ==
  { [isNil |-> FALSE, err |-> "nil", resp |-> AggResponse(l, 4, 0, <<>>)] :
      l \in PersistLists }

PersistFilters == { NilPtr, Ptr([NoFilterOptions EXCEPT !.MaxStops = Ptr(0)]) }
PersistSorts ==
  { NilPtr,
    Ptr([By |-> "price", Order |-> "asc"]),
    Ptr([By |-> "best_value", Order |-> "desc"]) }

FilterCall(c, filters, sortOpt) == SvcCallWith(c, "filter", ReqA, filters, sortOpt)
SearchCall(c) == SvcCall(c, "search", ReqA)
PersistFetch(c) == FetchStepOf(c, PersistOutcomes)

PersistNext ==
  \/ \E c \in Callers, f \in PersistFilters, o \in PersistSorts :
       FilterCall(c, f, o)
  \/ \E c \in Callers : SearchCall(c)
  \/ \E c \in Callers : PersistFetch(c)
  \/ \E c \in Callers : SvcReturn(c)
  \/ \E key \in Keys : BgCacheSet(key)
  \/ Tick

SpecPersist == Init /\ [][PersistNext]_vars

(***************************************************************************)
(* The Service with a client that goes away once its answer is ready, over *)
(* a store that accepts every Set.  The goroutine of a cache write is      *)
(* scheduled sooner or later.                                              *)
(***************************************************************************)
\* the context of caller c's request is cancelled
Disconnect(c) ==
  /\ callers[c].pc = "done"
  /\ ~callers[c].ctx.done
  /\ callers' = [callers EXCEPT ![c].ctx = [done |-> TRUE, at |-> now]]
  /\ UNCHANGED <<now, store, calls, bgWrites, hist>>
  /\ UNCHANGED <<fnVars, aggVars>>

BgCacheSetAccepted(key) == CacheSetCall(key, "ok")

DisconnectNext ==
  \/ \E c \in SoftCallers, op \in Ops, r \in SvcRequests : SvcCall(c, op, r)
  \/ \E c \in SoftCallers : FetchStep(c)
  \/ \E c \in SoftCallers : SvcReturn(c)
  \/ \E c \in SoftCallers : Disconnect(c)
  \/ \E key \in Keys : BgCacheSetAccepted(key)
  \/ Tick

SpecDisconnect ==
  /\ Init
  /\ [][DisconnectNext]_vars
  /\ \A key \in Keys : WF_vars(BgCacheSetAccepted(key))

(***************************************************************************)
(* Service.FilterFlights once getOrFetchFlights has given flights and      *)
(* metadata: the filters and the sort of the request, the recount, the     *)
(* elapsed time.                                                           *)
(***************************************************************************)
\* req.Filters and req.Sort: absent, or one of a few options
FilterChoices ==
  { NilPtr,
    Ptr(NoFilterOptions),
    Ptr([NoFilterOptions EXCEPT !.MaxStops = Ptr(0)]),
    Ptr([NoFilterOptions EXCEPT !.MaxStops = Ptr(1)]),
    Ptr([NoFilterOptions EXCEPT
           !.PriceRange = Ptr([Low |-> 650001, High |-> 900000])]),
    Ptr([NoFilterOptions EXCEPT
           !.DepartureTime = Ptr([From |-> T0600, To |-> T1000])]),
    Ptr([NoFilterOptions EXCEPT !.Airlines = << <<"g","a">> >>,
                                !.MaxDuration = Ptr(150)]) }

SortChoices ==
  { NilPtr,
    Ptr([By |-> "price", Order |-> "desc"]),
    Ptr([By |-> "best_value", Order |-> "desc"]),
    Ptr([By |-> "rating", Order |-> ""]) }

\* what the providers gave for the underlying search: all four, or two of
\* them with two failures
ProviderTallies ==
  { [succeeded |-> 4, failed |-> 0, errs |-> <<>>],
    [succeeded |-> 2, failed |-> 2,
     errs |-> << [Provider |-> "Lion Air", Code |-> ErrorCodeTimeout],
                 [Provider |-> "Batik Air",
                  Code |-> ErrorCodeInternalFailure] >>] }

\* the flights and metadata getOrFetchFlights returns: a response fetched
\* and stamped, the same response read back from the cache, or nothing
FetchedResults ==
  { Stamp(AggResponse(l, t.succeeded, t.failed, t.errs), generateCacheKey(ReqA)) :
      l \in FlightLists, t \in ProviderTallies }

CachedResults ==
  { LET dec == Unmarshal(Marshal(r))
    IN [Flights |-> dec.Flights,
        Metadata |-> StampHit(dec.Metadata, generateCacheKey(ReqA))] :
      r \in FetchedResults }

UnderlyingResults ==
  { [Flights |-> r.Flights, Metadata |-> r.Metadata] : r \in FetchedResults }
    \cup CachedResults
    \cup { [Flights |-> <<>>, Metadata |-> ZeroMetadata] }

ApplyFilterFlights ==
  /\ fnOut = <<>>
  /\ \E ms \in ElapsedMs :
       fnOut' = << FilterFlights(fsFlights, fsMeta, fsFilters, fsSort, ms) >>
  /\ UNCHANGED <<fnReq, fnReq2, fnToday, fsVars, aggVars, svcVars>>

InitFilterFlights ==
  /\ fnReq = ReqA
  /\ fnReq2 = NoRequest
  /\ fnToday = SvcToday
  /\ fnOut = <<>>
  /\ \E u \in UnderlyingResults :
       /\ fsFlights = u.Flights
       /\ fsMeta = u.Metadata
  /\ fsFilters \in FilterChoices
  /\ fsSort \in SortChoices
  /\ AggInit
  /\ SvcIdle

SpecFilterFlights == InitFilterFlights /\ [][ApplyFilterFlights]_vars

(***************************************************************************)
(* The provider adapters: mapGarudaFlights, mapAirAsiaFlights and          *)
(* mapLionAirFlights on a decoded response, for the fields Arrival and     *)
(* Stops.  A FlexibleTime is an instant; Datetime takes the instant and    *)
(* Timestamp its Unix seconds.                                             *)
(***************************************************************************)
Instant(sec) == [unix |-> sec]
GarudaLocation(airport, city, sec) ==
  [Airport |-> airport, City |-> city, Time |-> Instant(sec)]

LocSUB == GarudaLocation("SUB", "Surabaya", 1000)
LocDPS == GarudaLocation("DPS", "Denpasar", 2000)
LocUPG == GarudaLocation("UPG", "Makassar", 3000)
GarudaLocations == {LocSUB, LocDPS, LocUPG}

MaxSegments == 2

GarudaSegments ==
  { [FlightNumber |-> "GA", Departure |-> LocSUB, Arrival |-> a] :
      a \in GarudaLocations }

GarudaFlights ==
  [FlightID : {"GA400"}, Arrival : GarudaLocations, Stops : {0, 1},
   Segments : ListsUpTo(GarudaSegments, MaxSegments)]

\* the Arrival of the Flight built from a Garuda flight: the airport of
\* finalArrival, the rest of gFlight.Arrival
GarudaArrival(gFlight) ==
  LET finalArrival ==
        IF Len(gFlight.Segments) > 0
        THEN gFlight.Segments[Len(gFlight.Segments)].Arrival
        ELSE gFlight.Arrival
  IN [Airport |-> finalArrival.Airport,
      Datetime |-> gFlight.Arrival.Time,
      City |-> gFlight.Arrival.City,
      Timestamp |-> gFlight.Arrival.Time.unix]

mapGarudaFlights(resp) ==
  [panic |-> FALSE, err |-> "nil",
   flights |-> [i \in 1..Len(resp.Flights) |->
                  [ID |-> resp.Flights[i].FlightID,
                   Arrival |-> GarudaArrival(resp.Flights[i]),
                   Stops |-> resp.Flights[i].Stops]]]

\* AirAsia: the stop count of a flight
AirAsiaStopCount(aaFlight) ==
  IF ~aaFlight.DirectFlight
  THEN (IF Len(aaFlight.Stops) = 0 THEN 1 ELSE Len(aaFlight.Stops))
  ELSE 0

AirAsiaFlights ==
  [FlightCode : { <<"Q","Z","5","2","0">>, <<"Q">> },
   DirectFlight : BOOLEAN,
   Stops : ListsUpTo({[Airport |-> "SOC"], [Airport |-> "SUB"]}, 2)]

\* FlightCode[0:2] panics on a code shorter than two bytes
mapAirAsiaFlights(resp) ==
  IF \E i \in 1..Len(resp.Flights) : Utf8Len(resp.Flights[i].FlightCode) < 2
  THEN [panic |-> TRUE, err |-> "nil", flights |-> <<>>]
  ELSE [panic |-> FALSE, err |-> "nil",
        flights |-> [i \in 1..Len(resp.Flights) |->
                       [ID |-> resp.Flights[i].FlightCode,
                        Code |-> SubSeq(resp.Flights[i].FlightCode, 1, 2),
                        Stops |-> AirAsiaStopCount(resp.Flights[i])]]]

\* Lion Air: the stop count of a flight
LionAirStopCount(lFlight) ==
  IF ~lFlight.IsDirect /\ lFlight.StopCount = 0 /\ Len(lFlight.Layovers) > 0
  THEN Len(lFlight.Layovers)
  ELSE lFlight.StopCount

LionAirFlights ==
  [ID : {"JT740"}, IsDirect : BOOLEAN, StopCount : {0, 1, 2},
   Layovers : ListsUpTo({[Airport |-> "SOC"], [Airport |-> "SUB"]}, 2),
   Timezone : {"Asia/Jakarta", "Mars/Phobos"}]

\* applyTimezone fails on a timezone time.LoadLocation does not know
mapLionAirFlights(resp) ==
  IF \E i \in 1..Len(resp.Flights) : resp.Flights[i].Timezone = "Mars/Phobos"
  THEN [panic |-> FALSE, err |-> "lionair: failed to apply departure timezone",
        flights |-> <<>>]
  ELSE [panic |-> FALSE, err |-> "nil",
        flights |-> [i \in 1..Len(resp.Flights) |->
                       [ID |-> resp.Flights[i].ID,
                        Stops |-> LionAirStopCount(resp.Flights[i])]]]

\* a decoded response of one flight
MapInputs ==
  { [provider |-> "Garuda Indonesia", Flights |-> <<g>>] : g \in GarudaFlights }
    \cup { [provider |-> "AirAsia", Flights |-> <<a>>] : a \in AirAsiaFlights }
    \cup { [provider |-> "Lion Air", Flights |-> <<l>>] : l \in LionAirFlights }

MapGaruda ==
  /\ fnOut = <<>>
  /\ fnReq.provider = "Garuda Indonesia"
  /\ fnOut' = << mapGarudaFlights(fnReq) >>
  /\ UNCHANGED <<fnReq, fnReq2, fnToday, fsVars, aggVars, svcVars>>

MapAirAsia ==
  /\ fnOut = <<>>
  /\ fnReq.provider = "AirAsia"
  /\ fnOut' = << mapAirAsiaFlights(fnReq) >>
  /\ UNCHANGED <<fnReq, fnReq2, fnToday, fsVars, aggVars, svcVars>>

MapLionAir ==
  /\ fnOut = <<>>
  /\ fnReq.provider = "Lion Air"
  /\ fnOut' = << mapLionAirFlights(fnReq) >>
  /\ UNCHANGED <<fnReq, fnReq2, fnToday, fsVars, aggVars, svcVars>>

InitMap ==
  /\ fnReq \in MapInputs
  /\ fnReq2 = NoRequest
  /\ fnToday = SvcToday
  /\ fnOut = <<>>
  /\ FsIdle
  /\ AggInit
  /\ SvcIdle

SpecMap == InitMap /\ [][MapGaruda \/ MapAirAsia \/ MapLionAir]_vars

(***************************************************************************)
(* Properties of FlightManager.SearchFlights (SpecAgg).                    *)
(***************************************************************************)
Succeeded == { p \in ProviderSet : outcome[p] = "ok" }
TimedOut  == { p \in ProviderSet : outcome[p] \in {"deadline", "io_timeout"} }
FailedOther == { p \in ProviderSet : outcome[p] \in {"status", "bad_tz"} }

\* the flights of the successful providers among `order`, in that order
RECURSIVE FlightsInOrder(_)
FlightsInOrder(order) ==
  IF order = <<>> THEN <<>>
  ELSE (IF Head(order) \in Succeeded THEN MappedFlights(Head(order)) ELSE <<>>)
         \o FlightsInOrder(Tail(order))

Count(x, seq) == Cardinality({ i \in 1..Len(seq) : seq[i] = x })
SameBag(a, b) ==
  /\ Len(a) = Len(b)
  /\ \A i \in 1..Len(a) : Count(a[i], a) = Count(a[i], b)

\* C1: whatever the four calls end in, a SearchFlights that returns returns
\* a nil error and exactly the flights of the providers that succeeded, each
\* as often as it was delivered (no de-duplication, none of a failed
\* provider); with no provider succeeding it returns no flight and
\* ProvidersSucceeded = 0.
C1_PartialResults ==
  aggPc = "done" =>
    /\ aggResp.Err = "nil"
    /\ SameBag(aggResp.Flights, FlightsInOrder(Providers))
    /\ aggResp.Metadata.ProvidersSucceeded = Cardinality(Succeeded)
    /\ (Succeeded = {} =>
          aggResp.Flights = <<>> /\ aggResp.Metadata.ProvidersSucceeded = 0)

C1_Witness_AllFail ==
  /\ aggPc = "done"
  /\ Succeeded = {}
  /\ aggResp.Metadata.ProvidersFailed = 4

C7_DeadlineCancels ==
  aggPc = "done" =>
    \A p \in lateCalls :
      \E i \in 1..Len(aggResp.Metadata.ProviderErrors) :
        aggResp.Metadata.ProviderErrors[i]
          = [Provider |-> p, Code |-> ErrorCodeTimeout]

(***************************************************************************)
(* Properties of SearchRequest.Validate (SpecValidate) and of              *)
(* generateCacheKey (SpecKey).                                             *)
(***************************************************************************)
\* the conditions C9 lists, lengths counted in characters
ClaimedInvalid(r, today) ==
  LET dep == ParseDate(r.DepartureDate)
      ret == ParseDate(r.ReturnDate)
  IN
  \/ Len(r.Origin) # 3
  \/ Len(r.Destination) # 3
  \/ EqualFold(r.Origin, r.Destination)
  \/ r.Passengers < 1 \/ r.Passengers > 9
  \/ ~dep.ok
  \/ dep.ok /\ DateBefore(dep, today)
  \/ r.ReturnDate # <<>> /\ ~ret.ok
  \/ r.ReturnDate # <<>> /\ ret.ok /\ dep.ok /\ DateBefore(ret, dep)

\* C9 as claimed: Validate returns an error exactly when origin or
\* destination is not 3 characters long, they are equal ignoring case,
\* passengers is outside 1..9, the departure date is no valid date or is
\* before today, or a non-empty return date is no valid date or is before
\* the departure date.
C9_ValidateIff ==
  fnOut # <<>> => ((fnOut[1] # "nil") <=> ClaimedInvalid(fnReq, fnToday))

FiveEqual(a, b) ==
  /\ a.Origin = b.Origin
  /\ a.Destination = b.Destination
  /\ a.DepartureDate = b.DepartureDate
  /\ a.Passengers = b.Passengers
  /\ a.CabinClass = b.CabinClass

\* C10 as claimed: two requests get the same key exactly when they agree on
\* origin, destination, departure date, passengers and cabin class.
C10_KeyIffFiveFields ==
  fnOut # <<>> => ((fnOut[1] = fnOut[2]) <=> FiveEqual(fnReq, fnReq2))

\* C10 as amended: requests that agree on the five fields get the same key
\* whatever their return dates, and two requests that both pass Validate and
\* differ in one of the five get different keys.
C10_KeyOfValidRequests ==
  fnOut # <<>> =>
    /\ FiveEqual(fnReq, fnReq2) => fnOut[1] = fnOut[2]
    /\ ( /\ Validate(fnReq, fnToday) = "nil"
         /\ Validate(fnReq2, fnToday) = "nil"
         /\ ~FiveEqual(fnReq, fnReq2) ) => fnOut[1] # fnOut[2]

C10_Witness_PassengersDiffer ==
  /\ fnOut # <<>>
  /\ Validate(fnReq, fnToday) = "nil"
  /\ fnReq.Origin = <<"C", ":", "K">>
  /\ fnReq.ReturnDate = <<>>
  /\ fnReq2 = [fnReq EXCEPT !.Passengers = 2, !.ReturnDate = D1216]
  /\ fnReq.Passengers = 1
  /\ fnOut[1] # fnOut[2]

(***************************************************************************)
(* Claims about the Service (specification Spec).                          *)
(***************************************************************************)
Validated(r) == Validate(r, SvcToday) = "nil"

\* caller c makes its cache lookup in this step (Validate let the request
\* through) and the store answers
LooksUp(c) ==
  /\ callers[c].pc = "idle"
  /\ callers'[c].pc # "idle"
  /\ Validated(callers'[c].req)
  /\ hist'[c].got # "err"

\* caller c comes back from the flight client in this step
Fetches(c) == callers[c].pc = "fetch" /\ callers'[c].pc = "done"

\* C2: a lookup that finds a non-empty value that deserializes returns the
\* cached flights with CacheHit = true and CacheKey = the key, without a call
\* of the flight client and without a cache write (none done, none started).
C2_CacheHit ==
  [][\A c \in Callers :
       LET key == callers'[c].key
           ret == callers'[c].ret
       IN (LooksUp(c) /\ store[key].present /\ store[key].val.kind = "json")
          => /\ callers'[c].pc = "done"
             /\ ret.Err = NoError /\ ~ret.isNil
             /\ ret.Flights = store[key].val.flights
             /\ ret.Metadata.CacheHit = TRUE
             /\ ret.Metadata.CacheKey = key
             /\ key = generateCacheKey(callers'[c].req)
             /\ hist'[c].fetches = 0
             /\ hist'[c].sets = 0
             /\ store' = store
             /\ bgWrites' = bgWrites]_vars

\* a call served from the cache while the write that filled it is done
C2_Witness_Hit ==
  \E c \in Callers :
    /\ callers[c].pc = "done"
    /\ callers[c].ret.Metadata.CacheHit = TRUE
    /\ callers[c].ret.Flights # <<>>
    /\ hist[c].got = "hit"
    /\ bgWrites = EmptyBag

\* C3: a call that missed and whose flight client gave a response has called
\* the flight client exactly once before it returns, returns that result with
\* CacheHit = false, and has started exactly one background Set, of the full
\* result, under the call's key; the caller returns with that Set still
\* pending and the store as it was.
C3_CacheMiss ==
  /\ [](\A c \in Callers : hist[c].fetches <= 1 /\ hist[c].sets <= 1)
  /\ [][\A c \in Callers :
          LET key == callers[c].key
              ret == callers'[c].ret
          IN (Fetches(c) /\ hist'[c].fetched = "response")
             => /\ hist'[c].fetches = 1
                /\ hist'[c].sets = 1
                /\ ret.Err = NoError /\ ~ret.isNil
                /\ ret.Metadata.CacheHit = FALSE
                /\ ret.Metadata.CacheKey = key
                /\ store' = store
                /\ \E w \in BagToSet(bgWrites') :
                     /\ bgWrites' = bgWrites (+) SetToBag({w})
                     /\ w.key = key
                     /\ Unmarshal(w.val).Flights = ret.Flights
                     /\ Unmarshal(w.val).Metadata =
                          [ret.Metadata EXCEPT !.SearchTimeMs = 0]]_vars

\* the caller has its answer and the write it started is still pending
C3_Witness_WritePending ==
  \E c \in Callers :
    /\ callers[c].pc = "done"
    /\ hist[c].fetched = "response"
    /\ callers[c].ret.Metadata.ProvidersFailed > 0
    /\ \E w \in BagToSet(bgWrites) : w.key = callers[c].key
    /\ ~store[callers[c].key].present

\* C4: with the store answering, a lookup at time now is a hit exactly if the
\* key's entry was written at a time t with t <= now < t + d (d the TTL); a
\* lookup that misses goes on to the flight client, which the call has called
\* once when it returns.
C4_TtlWindow ==
  [][\A c \in Callers :
       LET e == store[callers'[c].key]
       IN /\ LooksUp(c)
             => /\ (callers'[c].pc = "done" /\ callers'[c].ret.Metadata.CacheHit)
                   <=> (e.at + e.exp > 0 /\ e.at <= now
                        /\ now < e.at + TtlSeconds)
                /\ callers'[c].pc = "fetch"
                   <=> ~(e.at + e.exp > 0 /\ e.at <= now
                         /\ now < e.at + TtlSeconds)
          /\ (Fetches(c) /\ hist[c].got # "err") => hist'[c].fetches = 1]_vars

\* a lookup after the entry's TTL has run out: a miss, the call is at the
\* flight client
C4_Witness_Expired ==
  \E c \in Callers :
    /\ callers[c].pc = "fetch"
    /\ hist[c].got = "expired"
    /\ now >= TtlSeconds

\* C8: a call whose request Validate refuses returns Validate's error and has
\* made no cache Get, started no cache Set and called no provider.
C8_ValidateFirst ==
  /\ [](\A c \in Callers :
          (callers[c].pc # "idle" /\ ~Validated(callers[c].req))
          => /\ callers[c].pc = "done"
             /\ callers[c].ret.Err.cause = Validate(callers[c].req, SvcToday)
             /\ callers[c].ret.isNil
             /\ hist[c].gets = 0
             /\ hist[c].fetches = 0
             /\ hist[c].sets = 0)
  /\ [][\A c \in Callers :
          (callers[c].pc = "idle" /\ callers'[c].pc # "idle"
           /\ ~Validated(callers'[c].req))
          => store' = store /\ bgWrites' = bgWrites]_vars

\* both operations have refused a request
C8_Witness_Refused ==
  /\ \A c \in Callers : callers[c].pc = "done" /\ ~Validated(callers[c].req)
  /\ { callers[c].op : c \in Callers } = Ops
  /\ \A c \in Callers :
       callers[c].ret.Err.cause = "ErrorCodeSameOriginDestination"

\* caller c's lookup in this step fails softly: the Get gives an error, an
\* empty value or a value that does not unmarshal
SoftFails(c) ==
  /\ callers[c].pc = "idle"
  /\ callers'[c].pc # "idle"
  /\ Validated(callers'[c].req)
  /\ \/ hist'[c].got = "err"
     \/ /\ store[callers'[c].key].present
        /\ store[callers'[c].key].val.kind # "json"

\* C11: a lookup whose Get gives an error or a value that cannot be used
\* goes on to the flight client as a miss does, with nothing returned yet and
\* the store untouched; the call then returns the fetched response with no
\* error and one background write started; a background Set, failed or not,
\* changes no caller's response.
C11_SoftCacheFailures ==
  /\ [][\A c \in Callers :
          SoftFails(c)
          => /\ callers'[c].pc = "fetch"
             /\ callers'[c].ret = NoReturn
             /\ store' = store
             /\ bgWrites' = bgWrites]_vars
  /\ [][\A c \in Callers :
          (Fetches(c) /\ hist[c].got \in {"err", "corrupt"}
           /\ hist'[c].fetched = "response")
          => /\ hist'[c].fetches = 1
             /\ callers'[c].ret.Err = NoError
             /\ ~callers'[c].ret.isNil
             /\ callers'[c].ret.Metadata.CacheHit = FALSE
             /\ callers'[c].ret.Metadata.ProvidersQueried = ProvidersQueried
             /\ BagCardinality(bgWrites') = BagCardinality(bgWrites) + 1]_vars
  /\ [][bgWrites' # bgWrites /\ BagCardinality(bgWrites') < BagCardinality(bgWrites)
        => callers' = callers]_vars

\* the call has its fetched response, and its background Set has failed: no
\* write is pending and the unusable value is still the stored one
C11_Witness_SetFailed ==
  \E c \in Callers :
    /\ callers[c].pc = "done"
    /\ hist[c].got = "corrupt"
    /\ hist[c].fetched = "response"
    /\ callers[c].ret.Err = NoError
    /\ bgWrites = EmptyBag
    /\ store[callers[c].key].present
    /\ store[callers[c].key].val.kind # "json"

\* C12: when the flight client returns an error on a miss the call returns
\* that error, unwrapped, with no response and no flights, starts no cache
\* write and leaves the store as it was.
C12_AggregatorError ==
  [][\A c \in Callers :
       (Fetches(c) /\ hist'[c].fetched = "error")
       => /\ callers'[c].ret.isNil
          /\ callers'[c].ret.Flights = <<>>
          /\ callers'[c].ret.Err = [prefix |-> "", cause |-> "fetch failed"]
          /\ hist'[c].fetches = 1
          /\ hist'[c].sets = 0
          /\ store' = store
          /\ bgWrites' = bgWrites]_vars

\* both operations have returned the flight client's error
C12_Witness_FetchFailed ==
  /\ \A c \in Callers :
       /\ callers[c].pc = "done"
       /\ hist[c].fetched = "error"
       /\ callers[c].ret.Err.cause = "fetch failed"
  /\ { callers[c].op : c \in Callers } = Ops
  /\ bgWrites = EmptyBag
  /\ \A k \in Keys : ~store[k].present

\* caller c looks up, with the store answering, the key of a call d that has
\* returned from a miss with the flight client's response, while d's write
\* has not failed: it is pending or the key has an entry
ReadsAfter(c, d) ==
  /\ c # d
  /\ LooksUp(c)
  /\ callers[d].pc = "done"
  /\ hist[d].fetched = "response"
  /\ callers'[c].key = callers[d].key
  /\ \/ store[callers[d].key].present
     \/ \E w \in BagToSet(bgWrites) : w.key = callers[d].key

\* C20 (as claimed): the next lookup of the key after a call has returned
\* from a miss with the flight client's response is a hit and calls no
\* provider.
C20_NextReaderHits ==
  [][\A c, d \in Callers :
       ReadsAfter(c, d)
       => /\ callers'[c].pc = "done"
          /\ callers'[c].ret.Metadata.CacheHit = TRUE]_vars

\* C20 (amended): such a lookup is a hit, with no provider call, if the
\* background Set of the key has been executed and its entry's TTL has not
\* run out; while the Set is pending and the key has no entry it is a miss.
C20_ReaderAfterSet ==
  [][\A c, d \in Callers :
       ReadsAfter(c, d)
       => /\ store[callers[d].key].present
             => /\ callers'[c].pc = "done"
                /\ callers'[c].ret.Metadata.CacheHit = TRUE
                /\ hist'[c].fetches = 0
          /\ ~store[callers[d].key].present
             => callers'[c].pc = "fetch"]_vars

\* the next reader has its hit: the first call's write is done
C20_Witness_NextHit ==
  \E c, d \in Callers :
    /\ c # d
    /\ callers[d].pc = "done" /\ hist[d].fetched = "response"
    /\ callers[c].pc = "done" /\ hist[c].got = "hit"
    /\ callers[c].key = callers[d].key
    /\ callers[c].ret.Flights = callers[d].ret.Flights
    /\ bgWrites = EmptyBag

(***************************************************************************)
(* Claims about applyFilters (specification SpecFilter).                   *)
(***************************************************************************)
\* the clock texts that are a time of day, and their seconds since midnight
ClockTexts == {T0600, T1000, T2200, T0200, T0000, T0740}
SecondsOfText(t) ==
  CASE t = T0600 -> 6 * 3600
    [] t = T1000 -> 10 * 3600
    [] t = T2200 -> 22 * 3600
    [] t = T0200 -> 2 * 3600
    [] t = T0000 -> 0
    [] t = T0740 -> 7 * 3600 + 40 * 60

TimeOfDay(dt) == 3600 * dt.Hour + 60 * dt.Minute + dt.Second

WindowIsClock(w) == w.isNil \/ (w.v.From \in ClockTexts /\ w.v.To \in ClockTexts)
InWindow(dt, w) ==
  w.isNil \/ (SecondsOfText(w.v.From) <= TimeOfDay(dt)
              /\ TimeOfDay(dt) <= SecondsOfText(w.v.To))

SameLetters(a, b) ==
  /\ Len(a) = Len(b)
  /\ \A i \in 1..Len(a) : FoldChar(a[i]) = FoldChar(b[i])

\* flight f passes every active predicate of options o
PassesAll(f, o) ==
  /\ o.PriceRange.isNil
     \/ (o.PriceRange.v.Low <= f.Price.Amount /\ f.Price.Amount <= o.PriceRange.v.High)
  /\ o.MaxStops.isNil \/ f.Stops <= o.MaxStops.v
  /\ o.MaxDuration.isNil \/ f.Duration.TotalMinutes <= o.MaxDuration.v
  /\ InWindow(f.Departure.Datetime, o.DepartureTime)
  /\ InWindow(f.Arrival.Datetime, o.ArrivalTime)
  /\ o.Airlines = <<>>
     \/ \E i \in 1..Len(o.Airlines) :
          SameLetters(f.Airline.Code, o.Airlines[i])
          \/ SameLetters(f.Airline.Name, o.Airlines[i])

\* the positions of the input whose flight passes, in increasing order, are
\* the output
RECURSIVE KeepPassing(_, _)
KeepPassing(l, o) ==
  IF l = <<>> THEN <<>>
  ELSE (IF PassesAll(Head(l), o) THEN <<Head(l)>> ELSE <<>>)
       \o KeepPassing(Tail(l), o)

\* C13: for options whose time windows are clock times, applyFilters returns
\* exactly the input flights that pass every active predicate, in input
\* order; an absent option constrains nothing.
C13_FilterExact ==
  (fnOut # <<>> /\ WindowIsClock(fsFilters.v.DepartureTime)
                /\ WindowIsClock(fsFilters.v.ArrivalTime))
  => fnOut[1] = KeepPassing(fsFlights, fsFilters.v)

\* a departure at 10:00:30 falls outside a window that ends at 10:00 while
\* the flight before it is kept
C13_Witness_WindowEdge ==
  /\ fnOut # <<>>
  /\ fsFlights = <<FlightGA, FlightJT, FlightID>>
  /\ ~fsFilters.v.DepartureTime.isNil
  /\ fsFilters.v.DepartureTime.v.To = T1000
  /\ fsFilters.v.Airlines = <<>>
  /\ fsFilters.v.PriceRange.isNil
  /\ fnOut[1] = <<FlightGA, FlightID>>

\* C14: applying the same FilterOptions to the filtered list gives the
\* filtered list.
C14_FilterIdempotent ==
  fnOut # <<>> => fnOut[2] = fnOut[1]

\* a filter that has dropped some flights, kept others, applied twice
C14_Witness_Filtered ==
  /\ fnOut # <<>>
  /\ Len(fsFlights) = MaxFlights
  /\ Len(fnOut[1]) >= 1
  /\ Len(fnOut[1]) < Len(fsFlights)
  /\ fnOut[2] = fnOut[1]
  /\ ~fsFilters.v.MaxStops.isNil

(***************************************************************************)
(* Claims about applySorting and calculateBestValueScores (SpecSort).      *)
(***************************************************************************)
Sorted == fnOut # <<>> /\ fnOut[1].call = "applySorting"
Scored == fnOut # <<>> /\ fnOut[1].call = "calculateBestValueScores"

\* -1, 0 or 1 as a's key is below, equal to or above b's
KeyCompare(by, a, b) ==
  LET cmp(x, y) == IF x < y THEN -1 ELSE IF x = y THEN 0 ELSE 1
  IN CASE by = "price" -> cmp(a.Price.Amount, b.Price.Amount)
       [] by = "duration" -> cmp(a.Duration.TotalMinutes, b.Duration.TotalMinutes)
       [] by = "departure_time" -> cmp(a.Departure.Timestamp, b.Departure.Timestamp)
       [] by = "arrival_time" -> cmp(a.Arrival.Timestamp, b.Arrival.Timestamp)
       [] by = "best_value" ->
            cmp(ScoreOf(a).num * ScoreOf(b).den, ScoreOf(b).num * ScoreOf(a).den)

WithoutScore(f) == [f EXCEPT !.BestValueScore = NilPtr]

\* out is the stable sort of in: a rearrangement of it, ordered by the key,
\* in which flights with equal keys keep their input order
IsStableSortOf(out, in, by, order) ==
  /\ Len(out) = Len(in)
  /\ \E pi \in [1..Len(in) -> 1..Len(in)] :
       /\ \A i, j \in 1..Len(in) : i # j => pi[i] # pi[j]
       /\ \A i \in 1..Len(in) : WithoutScore(out[i]) = in[pi[i]]
       /\ \A i, j \in 1..Len(in) :
            i < j =>
              /\ IF order = "desc" THEN KeyCompare(by, out[i], out[j]) >= 0
                 ELSE KeyCompare(by, out[i], out[j]) <= 0
              /\ KeyCompare(by, out[i], out[j]) = 0 => pi[i] < pi[j]

\* C15: for each of the five sort keys and both orders the returned list is
\* the stable sort of the input by that key.
C15_StableSort ==
  (Sorted /\ fsSort.v.By \in SortKeys /\ fsSort.v.Order \in {"asc", "desc"})
  => IsStableSortOf(fnOut[1].ret, fsFlights, fsSort.v.By, fsSort.v.Order)

\* best_value desc: the two flights with the top score keep their input
\* order, ID6514 before GA400, ahead of JT740 which came first
C15_Witness_TiedScores ==
  /\ Sorted
  /\ fsSort.v = [By |-> "best_value", Order |-> "desc"]
  /\ fsFlights = <<FlightJT, FlightID, FlightGA>>
  /\ [i \in 1..3 |-> fnOut[1].ret[i].ID] = <<"ID6514", "GA400", "JT740">>
  /\ fnOut[1].ret[1].BestValueScore = fnOut[1].ret[2].BestValueScore

AllAlike(l) ==
  \A i, j \in 1..Len(l) :
    /\ l[i].Price.Amount = l[j].Price.Amount
    /\ l[i].Duration.TotalMinutes = l[j].Duration.TotalMinutes
    /\ l[i].Stops = l[j].Stops

\* C17: sorting a non-empty list of alike flights by best_value attaches the
\* score 1.0 to every returned flight, a single flight included.
C17_AlikeScoreOne ==
  (Sorted /\ fsSort.v.By = "best_value" /\ fsFlights # <<>> /\ AllAlike(fsFlights))
  => \A i \in 1..Len(fnOut[1].ret) :
       fnOut[1].ret[i].BestValueScore = Ptr(FracOne)

\* 1 - (value - min)/(max - min) over the values of the set, 1 when all are
\* equal
Normalized(v, vals) ==
  LET lo == CHOOSE x \in vals : \A y \in vals : x <= y
      hi == CHOOSE x \in vals : \A y \in vals : x >= y
  IN IF hi = lo THEN FracOne
     ELSE FracSub(FracOne, Frac(v - lo, hi - lo))

NormPrice(l, i) == Normalized(l[i].Price.Amount, {l[k].Price.Amount : k \in 1..Len(l)})
NormDuration(l, i) ==
  Normalized(l[i].Duration.TotalMinutes,
             {l[k].Duration.TotalMinutes : k \in 1..Len(l)})
NormStops(l, i) == Normalized(l[i].Stops, {l[k].Stops : k \in 1..Len(l)})

SpecExample == <<FlightGA, FlightJT, FlightQZ>>

\* C18: every score is 0.45 nPrice + 0.35 nDuration + 0.20 nStops with the
\* components normalized over the list; on the example the components are
\* 1, 0.625, 0 / 1, 0.5, 0 / 1, 0.5, 0, and best_value desc returns the first
\* flight first.
C18_ScoreFormula ==
  /\ Scored =>
       \A i \in 1..Len(fsFlights) :
         /\ ~fnOut[1].ret[i].BestValueScore.isNil
         /\ FracMul(Frac(100, 1), fnOut[1].ret[i].BestValueScore.v)
              = FracAdd(FracAdd(FracMul(Frac(45, 1), NormPrice(fsFlights, i)),
                                FracMul(Frac(35, 1), NormDuration(fsFlights, i))),
                        FracMul(Frac(20, 1), NormStops(fsFlights, i)))
         /\ WithoutScore(fnOut[1].ret[i]) = fsFlights[i]
  /\ (Scored /\ fsFlights = SpecExample) =>
       /\ [i \in 1..3 |-> NormPrice(fsFlights, i)] = <<FracOne, Frac(5, 8), FracZero>>
       /\ [i \in 1..3 |-> NormDuration(fsFlights, i)] = <<FracOne, Frac(1, 2), FracZero>>
       /\ [i \in 1..3 |-> NormStops(fsFlights, i)] = <<FracOne, Frac(1, 2), FracZero>>
       /\ [i \in 1..3 |-> fnOut[1].ret[i].BestValueScore.v]
            = <<FracOne, Frac(55625, 100000), FracZero>>
  /\ (Sorted /\ fsSort.v = [By |-> "best_value", Order |-> "desc"]
      /\ Len(fsFlights) = 3
      /\ {fsFlights[i] : i \in 1..3} = {FlightGA, FlightJT, FlightQZ})
     => fnOut[1].ret[1].ID = "GA400"

\* the example scored
C18_Witness_Example ==
  /\ Scored
  /\ fsFlights = SpecExample
  /\ fnOut[1].ret[2].BestValueScore.v = Frac(89, 160)

(***************************************************************************)
(* Properties of Service.FilterFlights (SpecFilterFlights).                *)
(***************************************************************************)
\* the flights of the underlying result that the request's filters leave
LeftAfterFiltering ==
  IF fsFilters.isNil THEN Len(fsFlights)
  ELSE Len(KeepPassing(fsFlights, fsFilters.v))

\* C19: the response of FilterFlights counts in TotalResults the flights left
\* after filtering, and its ProvidersQueried, ProvidersSucceeded,
\* ProvidersFailed, ProviderErrors, CacheHit and CacheKey are those of the
\* underlying cached or fetched result.
C19_FilterMetadata ==
  fnOut # <<>> =>
    /\ fnOut[1].Metadata.TotalResults = LeftAfterFiltering
    /\ Len(fnOut[1].Flights) = LeftAfterFiltering
    /\ fnOut[1].Metadata.ProvidersQueried = fsMeta.ProvidersQueried
    /\ fnOut[1].Metadata.ProvidersSucceeded = fsMeta.ProvidersSucceeded
    /\ fnOut[1].Metadata.ProvidersFailed = fsMeta.ProvidersFailed
    /\ fnOut[1].Metadata.ProviderErrors = fsMeta.ProviderErrors
    /\ fnOut[1].Metadata.CacheHit = fsMeta.CacheHit
    /\ fnOut[1].Metadata.CacheKey = fsMeta.CacheKey

\* a cached result of three flights with two failed providers, of which the
\* filters leave one
C19_Witness_FewerThanCached ==
  /\ fnOut # <<>>
  /\ fsMeta.CacheHit
  /\ fsMeta.TotalResults = 3
  /\ fsMeta.ProvidersFailed = 2
  /\ ~fsFilters.isNil
  /\ ~fsSort.isNil
  /\ fnOut[1].Metadata.TotalResults = 1
  /\ fnOut[1].Metadata.CacheKey = generateCacheKey(ReqA)

(***************************************************************************)
(* Further properties of FlightManager.SearchFlights (SpecAgg).            *)
(***************************************************************************)
Failed == { p \in ProviderSet : outcome[p] \notin {"pending", "ok", "malformed"} }

\* C23: in every response ProvidersQueried = 4 = ProvidersSucceeded +
\* ProvidersFailed, ProviderErrors has ProvidersFailed entries, names each
\* failed provider once and no successful one, and TotalResults is the
\* number of flights returned.
C23_MetadataCounts ==
  aggPc = "done" =>
    LET md == aggResp.Metadata
        errs == md.ProviderErrors
    IN /\ md.ProvidersQueried = 4
       /\ md.ProvidersSucceeded + md.ProvidersFailed = 4
       /\ md.ProvidersSucceeded = Cardinality(Succeeded)
       /\ md.ProvidersFailed = Cardinality(Failed)
       /\ Len(errs) = md.ProvidersFailed
       /\ \A p \in Failed :
            Cardinality({ i \in 1..Len(errs) : errs[i].Provider = p }) = 1
       /\ \A i \in 1..Len(errs) : errs[i].Provider \notin Succeeded
       /\ md.TotalResults = Len(aggResp.Flights)

\* two providers failed with the same code, two delivered
C23_Witness_TwoFailed ==
  /\ aggPc = "done"
  /\ outcome["Lion Air"] = "status"
  /\ outcome["AirAsia"] = "status"
  /\ Cardinality(Succeeded) = 2
  /\ aggResp.Metadata.TotalResults = 2

\* the results provider p has sent so far: those received and those still in
\* the channel
Sent(p) ==
  Cardinality({ i \in 1..Len(received) : received[i] = p })
    + Cardinality({ i \in 1..Len(resultChan) : resultChan[i].provider = p })

\* C24 as claimed: every provider task whose call has returned has sent
\* exactly one result and SearchFlights can still return; no send finds the
\* channel full; the channel is closed only after all four sends; the
\* collector returns only after it has consumed all four results.
C24_FanIn ==
  /\ \A p \in ProviderSet :
       /\ Sent(p) <= 1
       /\ outcome[p] # "pending" => (Sent(p) = 1 /\ task[p] = "exit")
  /\ aggPc # "crashed"
  /\ Len(resultChan) <= ChanCap
  /\ chanClosed => \A p \in ProviderSet : Sent(p) = 1
  /\ aggPc = "done" => (Len(received) = 4 /\ resultChan = <<>> /\ chanClosed)

\* C30 as claimed: an AirAsia answer that decodes but holds a flight code
\* shorter than two characters leaves SearchFlights running, and the AirAsia
\* task delivers its one result.
C30_MalformedIsolated ==
  outcome["AirAsia"] = "malformed" =>
    /\ aggPc \in {"running", "done"}
    /\ Sent("AirAsia") = 1

(***************************************************************************)
(* Properties of the provider adapters (SpecMap).                          *)
(***************************************************************************)
\* C27 as claimed: the Arrival of a mapped Garuda flight, airport, city,
\* datetime and timestamp, is the arrival of the last segment when there are
\* segments and the top-level arrival when there are none.
C27_LastSegmentArrival ==
  (fnOut # <<>> /\ fnReq.provider = "Garuda Indonesia") =>
    LET g == fnReq.Flights[1]
        eff == IF g.Segments # <<>> THEN g.Segments[Len(g.Segments)].Arrival
               ELSE g.Arrival
    IN fnOut[1].flights[1].Arrival
         = [Airport |-> eff.Airport, Datetime |-> eff.Time, City |-> eff.City,
            Timestamp |-> eff.Time.unix]

\* C28 as claimed: a flight that AirAsia or Lion Air reports as not direct
\* with no stop count is mapped to Stops >= 1, also with an empty stop or
\* layover list.
C28_NotDirectHasStop ==
  (fnOut # <<>> /\ ~fnOut[1].panic /\ fnOut[1].err = "nil") =>
    /\ (fnReq.provider = "AirAsia" /\ ~fnReq.Flights[1].DirectFlight)
         => fnOut[1].flights[1].Stops >= 1
    /\ (fnReq.provider = "Lion Air" /\ ~fnReq.Flights[1].IsDirect
        /\ fnReq.Flights[1].StopCount = 0)
         => fnOut[1].flights[1].Stops >= 1

\* the best-value score of flight j of list l by the formula, the bounds
\* taken over l
FormulaScore(l, j) ==
  FracAdd(FracAdd(FracMul(priceWeight, NormPrice(l, j)),
                  FracMul(durationWeight, NormDuration(l, j))),
          FracMul(stopsWeight, NormStops(l, j)))

\* C26: FilterFlights with Filters and Sort by best_value scores the flights
\* that the filters leave: every returned flight is one of them and its
\* score is the formula's with the bounds of the filtered list, two or more
\* remaining flights all being scored.
C26_ScoresOverFiltered ==
  (fnOut # <<>> /\ ~fsFilters.isNil /\ ~fsSort.isNil
   /\ fsSort.v.By = "best_value") =>
    LET kept == KeepPassing(fsFlights, fsFilters.v)
        ret == fnOut[1].Flights
    IN /\ Len(ret) = Len(kept)
       /\ \A i \in 1..Len(ret) :
            /\ Len(kept) >= 2 => ~ret[i].BestValueScore.isNil
            /\ \E j \in 1..Len(kept) :
                 /\ WithoutScore(ret[i]) = kept[j]
                 /\ ~ret[i].BestValueScore.isNil
                      => ret[i].BestValueScore.v = FormulaScore(kept, j)

\* the filter drops the dearest flight of three: the middle one becomes the
\* worst of the two left and scores 0, not the 0.55625 of the unfiltered list
C26_Witness_BoundsMoved ==
  /\ fnOut # <<>>
  /\ fsFlights = <<FlightGA, FlightJT, FlightQZ>>
  /\ ~fsFilters.isNil
  /\ fsFilters.v.MaxStops = Ptr(1)
  /\ ~fsSort.isNil
  /\ fsSort.v.By = "best_value"
  /\ Len(fnOut[1].Flights) = 2
  /\ fnOut[1].Flights[2].ID = "JT740"
  /\ fnOut[1].Flights[2].BestValueScore = Ptr(FracZero)
  /\ FormulaScore(fsFlights, 2) = Frac(89, 160)

(***************************************************************************)
(* Properties of the background cache write (SpecDisconnect).              *)
(***************************************************************************)
\* the key and value of every cache write a fetch can start
FetchedWrites ==
  { [key |-> k, val |-> Marshal(Stamp(out.resp, k))] :
      k \in Keys, out \in { o \in FetchOutcomes : ~o.isNil /\ o.err = "nil" } }

Pending(w) ==
  \E b \in BagToSet(bgWrites) : b.key = w.key /\ b.val = w.val

\* C21: no pending cache write runs under a cancelled context, and a write
\* that is pending when the context of the request that started it has been
\* cancelled is executed: the entry is written, the store accepting the Set.
C21_WriteSurvivesDisconnect ==
  /\ [](\A b \in BagToSet(bgWrites) : ~CtxDone(b.ctx))
  /\ \A c \in SoftCallers : \A w \in FetchedWrites :
       (callers[c].ctx.done /\ callers[c].key = w.key /\ Pending(w))
         ~> (store[w.key].present /\ store[w.key].val = w.val)

\* the request's context was cancelled at second 0 with the write pending;
\* the entry was written a second later
C21_Witness_WrittenAfterCancel ==
  \E c \in SoftCallers :
    /\ callers[c].ctx.done
    /\ hist[c].sets = 1
    /\ bgWrites = EmptyBag
    /\ store[callers[c].key].present
    /\ store[callers[c].key].at > callers[c].ctx.at
    /\ store[callers[c].key].val
         = Marshal([Flights |-> callers[c].ret.Flights,
                    Metadata |-> callers[c].ret.Metadata])

(***************************************************************************)
(* Properties of Service.InvalidateCache (SpecInvalidate).                 *)
(***************************************************************************)
\* caller c's call of InvalidateCache happens in this step
Invalidates(c) ==
  callers[c].pc = "idle" /\ callers'[c].op = "invalidate"

\* caller c's read of a valid request happens in this step
Reads(c) ==
  callers[c].pc = "idle" /\ callers'[c].op \in Ops /\ callers'[c].key # <<>>

\* C22: an InvalidateCache that returns without error leaves no entry under
\* generateCacheKey(req) and every other key as it was, one that returns an
\* error changes nothing; a read that finds the key as the deletion left it
\* is a miss, and the miss fetches from the flight client.
C22_InvalidateExact ==
  [][\A c \in SoftCallers :
       /\ Invalidates(c) =>
            LET key == generateCacheKey(callers'[c].req) IN
            IF callers'[c].ret.Err = NoError
            THEN /\ store'[key] = NoEntry
                 /\ \A k \in Keys \ {key} : store'[k] = store[k]
                 /\ CacheGet(store', key, now').err # "nil"
            ELSE store' = store
       /\ (Reads(c) /\ store[generateCacheKey(callers'[c].req)] = NoEntry) =>
            /\ callers'[c].pc = "fetch"
            /\ hist'[c].got \in {"absent", "err"}
       /\ (callers[c].pc = "fetch" /\ callers'[c].pc = "done") =>
            /\ hist'[c].fetches = 1
            /\ hist'[c].fetched # "none"
    ]_vars

\* the entry of ReqA has been deleted while that of ReqB is still there
C22_Witness_OneDeleted ==
  \E c \in SoftCallers :
    /\ callers[c].op = "invalidate"
    /\ callers[c].req = ReqA
    /\ callers[c].ret.Err = NoError
    /\ hist[c].got = "deleted"
    /\ store[generateCacheKey(ReqA)] = NoEntry
    /\ store[generateCacheKey(ReqB)].present

(***************************************************************************)
(* Properties of the cache entries under concurrent calls (Spec).          *)
(***************************************************************************)
\* C25: whatever the interleaving of calls and background writes, an entry
\* is absent or the complete serialized response of one call of the flight
\* client, and a write that changes an entry puts exactly the value of one
\* pending write there.
C25_WholeEntries ==
  /\ [](\A k \in Keys :
          store[k].present => [key |-> k, val |-> store[k].val] \in FetchedWrites)
  /\ [][\A k \in Keys :
          (store'[k] # store[k] /\ store'[k].present) =>
            \E w \in BagToSet(bgWrites) :
              /\ w.key = k
              /\ store'[k].val = w.val
              /\ bgWrites' = bgWrites (-) SetToBag({w})]_vars

\* two calls on one key have fetched different results, both writes have
\* run, and the entry is the partial result, whole
C25_Witness_TwoWriters ==
  /\ callers["c1"].key = generateCacheKey(ReqA)
  /\ callers["c2"].key = generateCacheKey(ReqA)
  /\ hist["c1"].sets = 1
  /\ hist["c2"].sets = 1
  /\ callers["c1"].ret.Metadata.ProvidersFailed = 0
  /\ callers["c2"].ret.Metadata.ProvidersFailed = 2
  /\ bgWrites = EmptyBag
  /\ store[generateCacheKey(ReqA)].present
  /\ store[generateCacheKey(ReqA)].val.metadata.providers_failed = 2
  /\ Len(store[generateCacheKey(ReqA)].val.flights) = 3

(***************************************************************************)
(* Properties of what FilterFlights leaves in the cache (SpecPersist).     *)
(***************************************************************************)
\* the serialized responses of the flight client, as fetched: every flight,
\* in the order fetched, without a score
FetchedValues ==
  { Marshal(Stamp(out.resp, generateCacheKey(ReqA))) : out \in PersistOutcomes }

\* C29: every cache write started after a miss, and every entry, is the
\* flight client's response as fetched, whatever Filters and Sort the
\* request carried; a SearchFlights answer holds all flights of one fetched
\* response, and a FilterFlights answer is made of one fetched response and
\* the request's own Filters and Sort.
C29_CacheUnfiltered ==
  /\ \A b \in BagToSet(bgWrites) : b.val \in FetchedValues
  /\ \A k \in Keys : store[k].present => store[k].val \in FetchedValues
  /\ \A c \in Callers :
       (callers[c].pc = "done" /\ ~callers[c].ret.isNil) =>
          \E out \in PersistOutcomes :
            IF callers[c].op = "search"
            THEN callers[c].ret.Flights = out.resp.Flights
            ELSE /\ Len(callers[c].ret.Flights)
                      = IF callers[c].filters.isNil THEN Len(out.resp.Flights)
                        ELSE Len(KeepPassing(out.resp.Flights,
                                             callers[c].filters.v))
                 /\ \A i \in 1..Len(callers[c].ret.Flights) :
                      \E j \in 1..Len(out.resp.Flights) :
                        WithoutScore(callers[c].ret.Flights[i])
                          = out.resp.Flights[j]

\* a FilterFlights request with Filters and a best_value Sort missed and its
\* write has run; a SearchFlights request then hits and gets the three
\* flights as fetched
C29_Witness_SearchAfterFilter ==
  /\ callers["c1"].op = "filter"
  /\ callers["c1"].pc = "done"
  /\ hist["c1"].sets = 1
  /\ ~callers["c1"].filters.isNil
  /\ ~callers["c1"].sort.isNil
  /\ callers["c1"].sort.v.By = "best_value"
  /\ Len(callers["c1"].ret.Flights) = 1
  /\ callers["c2"].op = "search"
  /\ callers["c2"].pc = "done"
  /\ hist["c2"].got = "hit"
  /\ callers["c2"].ret.Flights = <<FlightQZ, FlightGA, FlightJT>>

====
